---- MODULE Spec2Model ----
(***************************************************************************)
(* Model of the PyBaMM expression-tree discretisation engine:              *)
(*   pybamm/discretisations/discretisation.py  (Discretisation)            *)
(*   pybamm/expression_tree/concatenations.py  (Concatenation and          *)
(*        NumpyConcatenation / DomainConcatenation)                        *)
(* Symbols are records with a "kind" field; dictionaries are sequences of  *)
(* <<key, value>> pairs in insertion order; a numpy vector is a sequence   *)
(* of integers.                                                            *)
(***************************************************************************)
EXTENDS Integers, Sequences, FiniteSets, TLC

VARIABLES
  mesh,             \* Discretisation._mesh
  registry,         \* the spatial_methods argument as handed to Discretisation
  spatial_methods,  \* Discretisation._spatial_methods: key -> method instance
  y_slices,         \* Discretisation._y_slices
  bcs,              \* Discretisation._bcs
  op,               \* the last operation called
  err,              \* the exception it raised, "none" if it returned
  step,             \* the step of process_model at which the call ended
  info,             \* what the exception carries
  arg_variables,    \* the list last given to set_variable_slices
  model0,           \* the model bundle as given to process_model
  model,            \* the model bundle after process_model
  node_in,          \* the children or symbol given to the last symbol operation
  node,             \* the symbol it returned
  simp,             \* the result of simplify on node
  call,             \* the solver callable called last, with its t and y
  known_evals,      \* the sub-expression cache as that call left it
  result            \* what that call returned

\* the state of the callables a solver builds in solve()
solver_vars == <<call, known_evals, result>>

vars == <<mesh, registry, spatial_methods, y_slices, bcs, op, err, step, info, arg_variables,
          model0, model, node_in, node, simp, call, known_evals, result>>

(***************************************************************************)
(* Bounds of the model                                                     *)
(***************************************************************************)
\* longest variable list handed to set_variable_slices
MaxVars == 3
\* most rhs, algebraic and initial-condition equations of a model
MaxRhs == 2
MaxAlg == 1
MaxIc == 2
\* most children of a concatenation built directly
MaxChildren == 3

(***************************************************************************)
(* Generic helpers on sequences                                            *)
(***************************************************************************)
RECURSIVE SumSeq(_)
SumSeq(s) == IF s = <<>> THEN 0 ELSE Head(s) + SumSeq(Tail(s))

RECURSIVE Flatten(_)
Flatten(ss) == IF ss = <<>> THEN <<>> ELSE Head(ss) \o Flatten(Tail(ss))

Range(s) == {s[i] : i \in 1..Len(s)}

SeqsUpTo(S, n) == UNION {[1..k -> S] : k \in 0..n}

\* the integers of the half-open range [start, stop)
Indices(sl) == {i \in sl.start..(sl.stop - 1) : TRUE}

Slice(a, b) == [start |-> a, stop |-> b]

(***************************************************************************)
(* Domains and meshes                                                      *)
(***************************************************************************)
\* the fixed global domain order
KNOWN_DOMAINS == <<"negative electrode", "separator", "positive electrode", "test">>

\* a domain name that is not in KNOWN_DOMAINS
UnknownDomain == "foo"

SubMesh(n) == [npts |-> n, npts_for_broadcast |-> n]

\* a mesh with one submesh per domain: domain name -> list of submeshes
MeshOneSubmesh ==
  [d \in {"negative electrode", "separator", "positive electrode"} |->
     CASE d = "negative electrode" -> <<SubMesh(2)>>
       [] d = "separator"          -> <<SubMesh(1)>>
       [] d = "positive electrode" -> <<SubMesh(2)>>]

\* a mesh whose negative electrode is made of two submeshes
MeshTwoSubmeshes ==
  [d \in {"negative electrode", "separator", "positive electrode"} |->
     CASE d = "negative electrode" -> <<SubMesh(1), SubMesh(1)>>
       [] d = "separator"          -> <<SubMesh(2)>>
       [] d = "positive electrode" -> <<SubMesh(1)>>]

\* meshes a Discretisation may be built on
MeshChoices == {MeshOneSubmesh, MeshTwoSubmeshes}

\* a mesh whose negative-electrode submesh has one more point for broadcasting
\* than it has points, as with nodal values on the cells of a finite-element mesh
MeshNodal ==
  [d \in {"negative electrode", "separator", "positive electrode"} |->
     CASE d = "negative electrode" -> <<[npts |-> 2, npts_for_broadcast |-> 3]>>
       [] d = "separator"          -> <<SubMesh(1)>>
       [] d = "positive electrode" -> <<SubMesh(2)>>]

\* a mesh whose separator is made of two submeshes of different sizes
MeshUnequalSubmeshes ==
  [d \in {"negative electrode", "separator", "positive electrode"} |->
     CASE d = "negative electrode" -> <<SubMesh(2)>>
       [] d = "separator"          -> <<SubMesh(1), SubMesh(2)>>
       [] d = "positive electrode" -> <<SubMesh(1)>>]

\* meshes that keep the mesh contract: a list of submeshes per domain, each with
\* npts and npts_for_broadcast
MeshContractChoices == MeshChoices \cup {MeshNodal, MeshUnequalSubmeshes}

\* the mesh of the unit tests: 5, 4 and 5 points
MeshScenarioB ==
  [d \in {"negative electrode", "separator", "positive electrode"} |->
     CASE d = "negative electrode" -> <<SubMesh(5)>>
       [] d = "separator"          -> <<SubMesh(4)>>
       [] d = "positive electrode" -> <<SubMesh(5)>>]

\* Discretisation.__init__ (lines 29-36): a registry maps a key to a method
\* class; "macroscale" is unpacked to the three electrode domains, and every
\* entry of the unpacked registry is instantiated on the mesh
MacroscaleDomains == {"negative electrode", "separator", "positive electrode"}

\* a registry in which "macroscale" only fills the electrode domains that have no
\* entry of their own
UnpackMacroscaleMissing(methods) ==
  IF "macroscale" \in DOMAIN methods
  THEN [dom \in DOMAIN methods \cup MacroscaleDomains |->
          IF dom \in DOMAIN methods THEN methods[dom] ELSE methods["macroscale"]]
  ELSE methods

UnpackMacroscale(methods) ==
  IF "macroscale" \in DOMAIN methods
  THEN [dom \in DOMAIN methods \cup MacroscaleDomains |->
          IF dom \in MacroscaleDomains THEN methods["macroscale"]
          ELSE methods[dom]]
  ELSE methods

DiscretisationMethods(m, methods) ==
  [dom \in DOMAIN UnpackMacroscale(methods) |->
     [method |-> UnpackMacroscale(methods)[dom], mesh |-> m]]

\* registries of spatial methods handed to Discretisation
RegistryChoices == { [k \in {"macroscale"} |-> "FiniteVolume"] }

\* every registry over three keys and two method classes
RegistryKeys == {"macroscale", "negative electrode", "current collector"}

MethodClasses == {"FiniteVolume", "MockSpatialMethod"}

RegistryInputs ==
  UNION { [keys -> MethodClasses] : keys \in SUBSET RegistryKeys }

(***************************************************************************)
(* Symbols                                                                 *)
(***************************************************************************)
Variable(name, domain) == [kind |-> "Variable", name |-> name, domain |-> domain]

NoNode == [kind |-> "None"]

\* structural identity of a symbol
SymbolId(s) == <<s.kind, s.name, s.domain>>

\* isinstance(symbol, pybamm.Concatenation), subclasses included
IsConcatenation(s) ==
  s.kind \in {"Concatenation", "NumpyConcatenation", "DomainConcatenation"}

\* a Concatenation whose domain has been computed already (see Concatenation)
ConcatenationNode(children, domain) ==
  [kind |-> "Concatenation", name |-> "concatenation", domain |-> domain,
   children |-> children]

(***************************************************************************)
(* Discretisation.set_variable_slices                                      *)
(***************************************************************************)
RECURSIVE UnpackVariables(_)
UnpackVariables(variables) ==
  IF variables = <<>> THEN <<>>
  ELSE LET symbol == Head(variables)
       IN  (IF IsConcatenation(symbol) THEN symbol.children ELSE <<symbol>>)
           \o UnpackVariables(Tail(variables))

\* self._spatial_methods[dom].mesh[dom] can be looked up
DomainHasMethod(dom) ==
  dom \in DOMAIN spatial_methods /\ dom \in DOMAIN spatial_methods[dom].mesh

\* sum of submesh.npts_for_broadcast over the submeshes of one domain
DomainPoints(dom) ==
  SumSeq([i \in 1..Len(mesh[dom]) |-> mesh[dom][i].npts_for_broadcast])

\* number of state-vector slots of one variable (lines 112-118)
VariableSize(variable) ==
  IF variable.domain = <<>> THEN 1
  ELSE SumSeq([i \in 1..Len(variable.domain) |-> DomainPoints(variable.domain[i])])


\* the loop of lines 110-120: returns the filled map, or a KeyError
RECURSIVE SliceLoop(_, _, _)
SliceLoop(unpacked, start, slices) ==
  IF unpacked = <<>> THEN [err |-> "none", val |-> slices]
  ELSE LET variable == Head(unpacked)
       IN  IF \E i \in 1..Len(variable.domain) : ~DomainHasMethod(variable.domain[i])
           THEN [err |-> "KeyError", val |-> slices]
           ELSE LET end == start + VariableSize(variable)
                    id  == SymbolId(variable)
                IN  SliceLoop(Tail(unpacked), end,
                              [slices EXCEPT ![id] = Slice(start, end)])

set_variable_slices(variables) ==
  LET unpacked_variables == UnpackVariables(variables)
      ids == {SymbolId(unpacked_variables[i]) : i \in 1..Len(unpacked_variables)}
  IN  SliceLoop(unpacked_variables, 0, [x \in ids |-> Slice(0, 0)])

(***************************************************************************)
(* Leaf symbols, broadcasts and their evaluation                           *)
(***************************************************************************)
Scalar(v) == [kind |-> "Scalar", name |-> "scalar", domain |-> <<>>, value |-> v]

Time == [kind |-> "Time", name |-> "time", domain |-> <<>>]

Vector(entries, domain) ==
  [kind |-> "Vector", name |-> "vector", domain |-> domain, entries |-> entries]

StateVector(y_slice, domain) ==
  [kind |-> "StateVector", name |-> "y", domain |-> domain, y_slice |-> y_slice]

\* Broadcast.__init__: the child's domain must be [], the target or the
\* current collector
BroadcastDomainOk(child, domain) ==
  child.domain \in {<<>>, domain, <<"current collector">>}

BroadcastNode(child, domain) ==
  [kind |-> "Broadcast", name |-> "broadcast", domain |-> domain,
   children |-> <<child>>]

\* a broadcast to `size` entries (size 1 for the empty domain)
NumpyBroadcast(child, domain, size) ==
  [kind |-> "NumpyBroadcast", name |-> "numpy broadcast", domain |-> domain,
   children |-> <<child>>, size |-> size]

\* an evaluation result: a number (num) or a vector, or a raised error
Num(v) == [err |-> "none", num |-> TRUE, val |-> <<v>>]
Arr(v) == [err |-> "none", num |-> FALSE, val |-> v]
Raise(e) == [err |-> e, num |-> FALSE, val |-> <<>>]

\* y = None for evaluate(0, None)
NoY == [none |-> TRUE, val |-> <<>>]
SomeY(v) == [none |-> FALSE, val |-> v]

\* the entries lo+1 .. hi of a sequence
Between(a, lo, hi) == IF hi <= lo THEN <<>> ELSE [i \in 1..(hi - lo) |-> a[lo + i]]

\* a python slice a[start:stop] of a sequence (out-of-range bounds are clipped)
PySlice(a, sl) ==
  Between(a, IF sl.start > Len(a) THEN Len(a) ELSE sl.start,
             IF sl.stop > Len(a) THEN Len(a) ELSE sl.stop)

\* an entry that numpy.empty allocated and nothing wrote: it stands for every
\* value the memory can hold, a different one in every entry and on every call.
\* It is not a number, so nothing can be computed from it or compared with it.
Arbitrary == "arbitrary"

\* numpy.empty(size)
Allocated(size) == [i \in 1..size |-> Arbitrary]

\* vector[target] = source for 1-d arrays: lengths must match unless the
\* source has exactly one entry, which is then repeated
AssignEntries(vector, target, source, n) ==
  IF Len(source) = n
  THEN [err |-> "none",
        val |-> [i \in 1..Len(vector) |->
                   IF i > target.start /\ i <= target.start + n
                   THEN source[i - target.start] ELSE vector[i]]]
  ELSE IF Len(source) = 1
  THEN [err |-> "none",
        val |-> [i \in 1..Len(vector) |->
                   IF i > target.start /\ i <= target.start + n
                   THEN source[1] ELSE vector[i]]]
  ELSE [err |-> "ValueError", val |-> vector]

AssignSlice(vector, target, source) ==
  AssignEntries(vector, target, source, Len(PySlice(vector, target)))

\* WriteChild writing the whole child vector into every domain of the child
\* (line 207 without the child_slice on the right-hand side)
RECURSIVE WriteChildUnsplit(_, _, _, _, _)
NextDomainUnsplit(w, slices, child_vector, child_doms, child_slices) ==
  IF w.err # "none" THEN w
  ELSE WriteChildUnsplit(w.val, slices, child_vector, Tail(child_doms), child_slices)

WriteChildUnsplit(vector, slices, child_vector, child_doms, child_slices) ==
  IF child_doms = <<>> THEN [err |-> "none", val |-> vector]
  ELSE IF Head(child_doms) \notin DOMAIN slices
       THEN [err |-> "KeyError", val |-> vector]
       ELSE NextDomainUnsplit(
              AssignSlice(vector, slices[Head(child_doms)], child_vector.val),
              slices, child_vector, child_doms, child_slices)

\* DomainConcatenation._concatenation_evaluate, inner loop over the
\* (domain, slice) items of one child; child_vector is what the child evaluated
\* to. Line 207 takes child_vector[child_slice] first, which a number does not
\* support, then looks the domain up in the slices of the node.
RECURSIVE WriteChild(_, _, _, _, _)
\* a failed assignment ends the loop, else the next domain of the child is written
NextDomain(w, slices, child_vector, child_doms, child_slices) ==
  IF w.err # "none" THEN w
  ELSE WriteChild(w.val, slices, child_vector, Tail(child_doms), child_slices)

WriteChild(vector, slices, child_vector, child_doms, child_slices) ==
  IF child_doms = <<>> THEN [err |-> "none", val |-> vector]
  ELSE IF child_vector.num THEN [err |-> "TypeError", val |-> vector]
  ELSE IF Head(child_doms) \notin DOMAIN slices
       THEN [err |-> "KeyError", val |-> vector]
       ELSE NextDomain(
              AssignSlice(vector, slices[Head(child_doms)],
                          PySlice(child_vector.val, child_slices[Head(child_doms)])),
              slices, child_vector, child_doms, child_slices)

\* DomainConcatenation._concatenation_evaluate, outer loop over the children
RECURSIVE WriteChildren(_, _, _, _, _)
\* a failed child ends the loop, else the next child is written
NextChild(w, slices, children_eval, children_doms, children_slices) ==
  IF w.err # "none" THEN w
  ELSE WriteChildren(w.val, slices, Tail(children_eval),
                     Tail(children_doms), Tail(children_slices))

WriteChildren(vector, slices, children_eval, children_doms, children_slices) ==
  IF children_eval = <<>> \/ children_slices = <<>>
  THEN [err |-> "none", val |-> vector]
  ELSE NextChild(WriteChild(vector, slices, Head(children_eval),
                            Head(children_doms), Head(children_slices)),
                 slices, children_eval, children_doms, children_slices)

\* the evaluated children one after the other, in the order of the children
ConcatenateInChildOrder(n, children_eval) ==
  Arr(Flatten([i \in 1..Len(children_eval) |-> children_eval[i].val]))

\* the filled vector as the value of the node, or the error of the loop
Written(w) == IF w.err # "none" THEN Raise(w.err) ELSE Arr(w.val)

DomainConcatenationEvaluate(n, children_eval) ==
  Written(WriteChildren(Allocated(n.size), n.slices,
                        children_eval, n.children_doms, n.children_slices))

\* NumpyConcatenation._concatenation_evaluate
NumpyConcatenationEvaluate(children_eval) == Arr(Flatten(children_eval))

\* np.concatenate (line 100) on the evaluated children ce: a child that
\* evaluated to a number is zero-dimensional and cannot be concatenated
NumpyConcatenate(ce) ==
  IF \E i \in 1..Len(ce) : ce[i].num THEN Raise("ValueError")
  ELSE NumpyConcatenationEvaluate([i \in 1..Len(ce) |-> ce[i].val])

\* a NumpyBroadcast of the evaluated child c
BroadcastEvaluate(s, c) ==
  IF c.err # "none" THEN c
  ELSE IF c.num \/ Len(c.val) = 1
       THEN Arr([i \in 1..s.size |-> c.val[1]])
  ELSE IF Len(c.val) = s.size THEN Arr(c.val)
  ELSE Raise("ValueError")

\* left + right and left * right of numbers and numpy vectors: vectors of equal
\* length, or one operand a number or of length one
Combine(class, a, b) ==
  IF class = "Addition" THEN a + b ELSE a * b

Elementwise(class, l, r) ==
  IF l.num /\ r.num THEN Num(Combine(class, l.val[1], r.val[1]))
  ELSE IF Len(l.val) = Len(r.val)
       THEN Arr([i \in 1..Len(l.val) |-> Combine(class, l.val[i], r.val[i])])
  ELSE IF Len(r.val) = 1
       THEN Arr([i \in 1..Len(l.val) |-> Combine(class, l.val[i], r.val[1])])
  ELSE IF Len(l.val) = 1
       THEN Arr([i \in 1..Len(r.val) |-> Combine(class, l.val[1], r.val[i])])
  ELSE Raise("ValueError")

\* BinaryOperator.evaluate on the evaluated children: the first exception of a
\* child, else the operation of the class, which the base class does not have
BinaryEvaluate(s, l, r) ==
  IF l.err # "none" THEN l
  ELSE IF r.err # "none" THEN r
  ELSE IF s.name \in {"Addition", "Multiplication"} THEN Elementwise(s.name, l, r)
  ELSE Raise("NotImplementedError")

\* -child of a number or a numpy vector
Negated(c) ==
  IF c.num THEN Num(0 - c.val[1]) ELSE Arr([i \in 1..Len(c.val) |-> 0 - c.val[i]])

\* UnaryOperator.evaluate on the evaluated child: the exception of the child,
\* else the operation of the class (Negate), which the base class does not have
UnaryEvaluate(s, c) ==
  IF c.err # "none" THEN c
  ELSE IF s.name = "-" THEN Negated(c)
  ELSE Raise("NotImplementedError")

\* Function.evaluate on the evaluated child: the exception of the child, else
\* self.func(child). func is a numpy function known by its name; any other value
\* of func is not callable
FunctionEvaluate(s, c) ==
  IF c.err # "none" THEN c
  ELSE IF s.func = "abs"
       THEN (IF c.num THEN Num(IF c.val[1] < 0 THEN 0 - c.val[1] ELSE c.val[1])
             ELSE Arr([i \in 1..Len(c.val) |->
                         IF c.val[i] < 0 THEN 0 - c.val[i] ELSE c.val[i]]))
  ELSE IF s.func = "negative" THEN Negated(c)
  ELSE Raise("TypeError")

\* the children that raised
RaisedIn(ce) == {i \in 1..Len(ce) : ce[i].err # "none"}

\* evaluate of an operator class that does not say how to evaluate: the
\* children are evaluated first, so the first exception of a child comes before
\* the NotImplementedError of the class
OperatorEvaluate(ce) ==
  IF RaisedIn(ce) # {}
  THEN ce[CHOOSE i \in RaisedIn(ce) : \A j \in RaisedIn(ce) : i <= j]
  ELSE Raise("NotImplementedError")

\* Concatenation.evaluate without a cache (lines 62-66): the first exception
\* of a child, else the concatenation of the evaluated children ce, which the
\* base class does not implement (line 51)
ConcatenationEvaluate(s, ce) ==
  IF RaisedIn(ce) # {}
  THEN ce[CHOOSE i \in RaisedIn(ce) : \A j \in RaisedIn(ce) : i <= j]
  ELSE IF s.kind = "NumpyConcatenation"
       THEN NumpyConcatenate(ce)
  ELSE IF s.kind = "DomainConcatenation"
       THEN DomainConcatenationEvaluate(s, ce)
  ELSE Raise("NotImplementedError")

\* Symbol.evaluate(t, y) for the node kinds of the model; a field that is still
\* None has no evaluate
RECURSIVE Evaluate(_, _, _)
Evaluate(s, t, y) ==
  CASE s.kind = "Scalar" -> Num(s.value)
    [] s.kind = "Time" -> Num(t)
    [] s.kind = "Vector" -> Arr(s.entries)
    [] s.kind = "StateVector" ->
         IF y.none THEN Raise("TypeError")
         ELSE IF Len(y.val) < s.y_slice.stop THEN Raise("ValueError")
         ELSE Arr(PySlice(y.val, s.y_slice))
    [] s.kind = "NumpyBroadcast" ->
         BroadcastEvaluate(s, Evaluate(s.children[1], t, y))
    [] s.kind \in {"Concatenation", "NumpyConcatenation", "DomainConcatenation"} ->
         ConcatenationEvaluate(
           s, [i \in 1..Len(s.children) |-> Evaluate(s.children[i], t, y)])
    [] s.kind = "BinaryOperator" ->
         BinaryEvaluate(s, Evaluate(s.children[1], t, y), Evaluate(s.children[2], t, y))
    [] s.kind = "UnaryOperator" ->
         UnaryEvaluate(s, Evaluate(s.children[1], t, y))
    [] s.kind = "Function" ->
         FunctionEvaluate(s, Evaluate(s.children[1], t, y))
    [] s.kind = "None" -> Raise("AttributeError")
    [] OTHER ->
         IF "children" \in DOMAIN s
         THEN OperatorEvaluate([i \in 1..Len(s.children) |->
                                  Evaluate(s.children[i], t, y)])
         ELSE Raise("NotImplementedError")

\* an evaluation that returned a number
IsNumber(r) == r.err = "none" /\ r.num

\* Symbol.evaluates_to_number: the symbol evaluates at t = 0 without a state
\* vector, and to a number. Scalar and Time do; of the other kinds only an
\* operator on numbers can, the rest evaluate to arrays or raise.
evaluates_to_number(s) ==
  IF s.kind \in {"Scalar", "Time"} THEN TRUE
  ELSE IF s.kind \in {"BinaryOperator", "UnaryOperator", "Function"}
       THEN IsNumber(Evaluate(s, 0, NoY))
  ELSE FALSE

(***************************************************************************)
(* Evaluation with a cache of sub-results (known_evals)                    *)
(***************************************************************************)
\* self.id, the key of a node in known_evals: equal for structurally equal nodes
CacheKey(s) == s

\* self.id in known_evals
InCache(evals, key) == \E i \in 1..Len(evals) : evals[i][1] = key

\* Cached answering with the entry stored last, whatever its key
CachedLast(evals, key) == evals[Len(evals)][2]

\* known_evals[self.id]
Cached(evals, key) ==
  evals[CHOOSE i \in 1..Len(evals) : evals[i][1] = key][2]

\* what evaluate(t, y, known_evals) returns: the value and the cache
WithCache(res, evals) == [res |-> res, known_evals |-> evals]

\* known_evals[self.id] = value; return known_evals[self.id], known_evals.
\* A raised exception stores nothing.
StoreEval(s, res, evals) ==
  IF res.err # "none" THEN WithCache(res, evals)
  ELSE WithCache(res, Append(evals, <<CacheKey(s), res>>))

\* the value of a node from the evaluated children (one result per child)
NodeEvaluate(s, ce) ==
  CASE s.kind = "NumpyBroadcast" ->
         IF ce[1].num \/ Len(ce[1].val) = 1
         THEN Arr([i \in 1..s.size |-> ce[1].val[1]])
         ELSE IF Len(ce[1].val) = s.size THEN Arr(ce[1].val)
         ELSE Raise("ValueError")
    [] s.kind = "NumpyConcatenation" ->
         NumpyConcatenate(ce)
    [] s.kind = "DomainConcatenation" ->
         DomainConcatenationEvaluate(s, ce)
    [] s.kind = "BinaryOperator" -> BinaryEvaluate(s, ce[1], ce[2])
    [] s.kind = "UnaryOperator" -> UnaryEvaluate(s, ce[1])
    [] s.kind = "Function" -> FunctionEvaluate(s, ce[1])
    [] OTHER -> Raise("NotImplementedError")

RECURSIVE EvaluateCached(_, _, _, _)
RECURSIVE EvaluateChildrenCached(_, _, _, _, _)
\* lines 57-59, one turn of the loop: the cache a child returns is handed to
\* the next child
NextChildCached(children, t, y, ce, c) ==
  IF c.res.err # "none" THEN [err |-> c.res.err, ce |-> ce, known_evals |-> c.known_evals]
  ELSE EvaluateChildrenCached(Tail(children), t, y, Append(ce, c.res), c.known_evals)

EvaluateChildrenCached(children, t, y, ce, evals) ==
  IF children = <<>> THEN [err |-> "none", ce |-> ce, known_evals |-> evals]
  ELSE CHOOSE next \in {NextChildCached(children, t, y, ce, c) :
                          c \in {EvaluateCached(Head(children), t, y, evals)}} : TRUE

\* line 60
StoreNode(s, c) ==
  IF c.err # "none" THEN WithCache(Raise(c.err), c.known_evals)
  ELSE StoreEval(s, NodeEvaluate(s, c.ce), c.known_evals)

\* Symbol.evaluate(t, y, known_evals) with a cache (lines 55-61)
EvaluateCached(s, t, y, evals) ==
  IF InCache(evals, CacheKey(s))
  THEN WithCache(Cached(evals, CacheKey(s)), evals)
  ELSE IF "children" \in DOMAIN s
       THEN CHOOSE stored \in {StoreNode(s, c) :
                                 c \in {EvaluateChildrenCached(s.children, t, y,
                                                               <<>>, evals)}} : TRUE
       ELSE StoreEval(s, Evaluate(s, t, y), evals)

(***************************************************************************)
(* Concatenation, NumpyConcatenation and DomainConcatenation construction  *)
(***************************************************************************)
IndexIn(seq, x) == CHOOSE i \in 1..Len(seq) : seq[i] = x /\ \A j \in 1..(i - 1) : seq[j] # x

\* sorted(domain_dict, key=KNOWN_DOMAINS.index): the distinct names of a
\* set, listed in the global order
RECURSIVE SortByKnownOrder(_, _)
SortByKnownOrder(names, k) ==
  IF k > Len(KNOWN_DOMAINS) THEN <<>>
  ELSE (IF KNOWN_DOMAINS[k] \in names THEN <<KNOWN_DOMAINS[k]>> ELSE <<>>)
       \o SortByKnownOrder(names, k + 1)

\* CombineDomains remembering only the domain of the child before
RECURSIVE CombineDomainsForgetful(_, _)
CombineDomainsForgetful(children, domain) ==
  IF children = <<>> THEN [err |-> "none", val |-> domain]
  ELSE LET child_domain == Head(children).domain
       IN  IF Range(domain) \cap Range(child_domain) = {}
           THEN CombineDomainsForgetful(Tail(children), child_domain)
           ELSE [err |-> "DomainError", val |-> domain]

\* the loop of lines 36-41 of get_children_domains
RECURSIVE CombineDomains(_, _)
CombineDomains(children, domain) ==
  IF children = <<>> THEN [err |-> "none", val |-> domain]
  ELSE LET child_domain == Head(children).domain
       IN  IF Range(domain) \cap Range(child_domain) = {}
           THEN CombineDomains(Tail(children), domain \o child_domain)
           ELSE [err |-> "DomainError", val |-> domain]

\* get_children_domains without the sort of lines 43-45: insertion order
get_children_domains_unsorted(children) ==
  LET c == CombineDomains(children, <<>>)
  IN  IF c.err # "none" THEN c
      ELSE IF \E d \in Range(c.val) : d \notin Range(KNOWN_DOMAINS)
           THEN [err |-> "ValueError", val |-> c.val]
      ELSE [err |-> "none", val |-> c.val]

get_children_domains(children) ==
  LET c == CombineDomains(children, <<>>)
  IN  IF c.err # "none" THEN c
      ELSE IF \E d \in Range(c.val) : d \notin Range(KNOWN_DOMAINS)
           THEN [err |-> "ValueError", val |-> c.val]
      ELSE [err |-> "none", val |-> SortByKnownOrder(Range(c.val), 1)]

\* Concatenation(*children): the node, or the error raised
Concatenation(children) ==
  LET d == get_children_domains(children)
  IN  IF d.err # "none" THEN [err |-> d.err, val |-> NoNode]
      ELSE [err |-> "none", val |-> ConcatenationNode(children, d.val)]

\* NumpyConcatenation(*children) without the loop of lines 90-92: the children
\* are kept as they are
NumpyConcatenationUnwrapped(children) ==
  [kind |-> "NumpyConcatenation", name |-> "numpy concatenation", domain |-> <<>>,
   children |-> children]

\* NumpyConcatenation(*children): numbers are wrapped in a NumpyBroadcast
NumpyConcatenation(children) ==
  [kind |-> "NumpyConcatenation", name |-> "numpy concatenation", domain |-> <<>>,
   children |-> [i \in 1..Len(children) |->
                   IF evaluates_to_number(children[i])
                   THEN NumpyBroadcast(children[i], <<>>, 1)
                   ELSE children[i]]]

\* CreateSlicesLoop without line 196 (start = end): every slice starts at 0
RECURSIVE CreateSlicesFromZero(_, _, _)
CreateSlicesFromZero(domain, start, slices) ==
  IF domain = <<>> THEN slices
  ELSE LET dom == Head(domain)
           prim_pts == mesh[dom][1].npts
           second_pts == Len(mesh[dom])
           end == start + prim_pts * second_pts
       IN  CreateSlicesFromZero(Tail(domain), start,
             [x \in DOMAIN slices \cup {dom} |->
                IF x = dom THEN Slice(start, end) ELSE slices[x]])

\* DomainConcatenation.create_slices for a list of domains
RECURSIVE CreateSlicesLoop(_, _, _)
CreateSlicesLoop(domain, start, slices) ==
  IF domain = <<>> THEN slices
  ELSE LET dom == Head(domain)
           prim_pts == mesh[dom][1].npts
           second_pts == Len(mesh[dom])
           end == start + prim_pts * second_pts
       IN  CreateSlicesLoop(Tail(domain), end,
             [x \in DOMAIN slices \cup {dom} |->
                IF x = dom THEN Slice(start, end) ELSE slices[x]])

create_slices(domain) == CreateSlicesLoop(domain, 0, << >>)

DomainConcatenationNode(children, domain, slices, size, children_doms, children_slices) ==
  [kind |-> "DomainConcatenation", name |-> "domain concatenation",
   domain |-> domain, children |-> children, slices |-> slices, size |-> size,
   children_doms |-> children_doms, children_slices |-> children_slices]

\* DomainConcatenation(children, mesh) without the check of lines 150-156: the
\* lookup self.domain[-1] of line 162 fails on an empty domain
DomainConcatenationUnchecked(children) ==
  LET d == get_children_domains(children)
  IN  IF d.err # "none" THEN [err |-> d.err, val |-> NoNode]
      ELSE IF d.val = <<>> THEN [err |-> "IndexError", val |-> NoNode]
      ELSE IF \E dom \in Range(d.val) : dom \notin DOMAIN mesh
           THEN [err |-> "KeyError", val |-> NoNode]
      ELSE LET slices == create_slices(d.val)
           IN  [err |-> "none",
                val |-> DomainConcatenationNode(
                          children, d.val, slices, slices[d.val[Len(d.val)]].stop,
                          [i \in 1..Len(children) |-> children[i].domain],
                          [i \in 1..Len(children) |-> create_slices(children[i].domain)])]

\* DomainConcatenation(children, mesh) without copy_this (lines 136-168)
DomainConcatenation(children) ==
  LET d == get_children_domains(children)
  IN  IF d.err # "none" THEN [err |-> d.err, val |-> NoNode]
      ELSE IF d.val = <<>> THEN [err |-> "DomainError", val |-> NoNode]
      ELSE IF \E dom \in Range(d.val) : dom \notin DOMAIN mesh
           THEN [err |-> "KeyError", val |-> NoNode]
      ELSE LET slices == create_slices(d.val)
           IN  [err |-> "none",
                val |-> DomainConcatenationNode(
                          children, d.val, slices, slices[d.val[Len(d.val)]].stop,
                          [i \in 1..Len(children) |-> children[i].domain],
                          [i \in 1..Len(children) |-> create_slices(children[i].domain)])]

\* DomainConcatenation(children, mesh, copy_this) without line 173: the slices
\* of the children are not taken over
DomainConcatenationCopyNoChildSlices(children, copy_this) ==
  LET d == get_children_domains(children)
  IN  IF d.err # "none" THEN [err |-> d.err, val |-> NoNode]
      ELSE [err |-> "none",
            val |-> DomainConcatenationNode(
                      children, d.val, copy_this.slices, copy_this.size,
                      <<>>, <<>>)]

\* DomainConcatenation(children, mesh, copy_this) (lines 143, 169-173)
DomainConcatenationCopy(children, copy_this) ==
  LET d == get_children_domains(children)
  IN  IF d.err # "none" THEN [err |-> d.err, val |-> NoNode]
      ELSE [err |-> "none",
            val |-> DomainConcatenationNode(
                      children, d.val, copy_this.slices, copy_this.size,
                      copy_this.children_doms, copy_this.children_slices)]

(***************************************************************************)
(* simplify                                                                *)
(***************************************************************************)
\* Symbol.is_constant: no StateVector, Variable or Time below the node
RECURSIVE is_constant(_)
is_constant(s) ==
  /\ s.kind \notin {"StateVector", "Variable", "Time"}
  /\ ("children" \in DOMAIN s => \A i \in 1..Len(s.children) : is_constant(s.children[i]))

\* pybamm.simplify_if_constant: a constant node that evaluates is replaced by
\* its value
\* the node that stands for the value r of the constant node s
ConstantNode(s, r) ==
  IF r.err # "none" THEN s
  ELSE IF r.num THEN Scalar(r.val[1])
  ELSE Vector(r.val, s.domain)

simplify_if_constant(s) ==
  IF is_constant(s) THEN ConstantNode(s, Evaluate(s, 0, NoY)) ELSE s

\* DomainConcatenation.simplify, first branch (lines 215-223): the test
CollapsesToStateVector(children) ==
  /\ \A i \in 1..Len(children) : children[i].kind = "StateVector"
  /\ \A i \in 1..(Len(children) - 1) :
        children[i].y_slice.stop = children[i + 1].y_slice.start

\* DomainConcatenation.simplify, first branch (lines 221-223): the result
CollapsedStateVector(children) ==
  StateVector(Slice(children[1].y_slice.start, children[Len(children)].y_slice.stop),
              <<>>)

\* the domain given to the rebuilt node (line 232)
SimplifiedDomain(n) == <<>>

RECURSIVE Simplify(_)
\* NumpyConcatenation.simplify (lines 102-108)
NumpyConcatenationSimplify(n) ==
  simplify_if_constant(
    NumpyConcatenation([i \in 1..Len(n.children) |-> Simplify(n.children[i])]))

\* DomainConcatenation.simplify (lines 211-234)
DomainConcatenationSimplify(n) ==
  IF CollapsesToStateVector(n.children)
  THEN CollapsedStateVector(n.children)
  ELSE LET children == [i \in 1..Len(n.children) |-> Simplify(n.children[i])]
           new_node == DomainConcatenationCopy(children, n).val
       IN  simplify_if_constant([new_node EXCEPT !.domain = SimplifiedDomain(n)])

\* Symbol.simplify dispatch for the node kinds of the model
Simplify(s) ==
  CASE s.kind = "NumpyConcatenation" -> NumpyConcatenationSimplify(s)
    [] s.kind = "DomainConcatenation" -> DomainConcatenationSimplify(s)
    [] s.kind = "NumpyBroadcast" ->
         simplify_if_constant(
           NumpyBroadcast(Simplify(s.children[1]), s.domain, s.size))
    [] OTHER -> s

(***************************************************************************)
(* Discretisation.process_symbol                                           *)
(***************************************************************************)
\* the broadcast(symbol, domain) of a spatial method: one entry per mesh point
MethodBroadcast(child, domain) ==
  NumpyBroadcast(child, domain,
                 SumSeq([i \in 1..Len(domain) |-> DomainPoints(domain[i])]))

Gradient(child) ==
  [kind |-> "Gradient", name |-> "grad", domain |-> child.domain,
   children |-> <<child>>]

Divergence(child) ==
  [kind |-> "Divergence", name |-> "div", domain |-> child.domain,
   children |-> <<child>>]

Integral(child) ==
  [kind |-> "Integral", name |-> "integral", domain |-> <<>>, children |-> <<child>>]

IndefiniteIntegral(child) ==
  [kind |-> "IndefiniteIntegral", name |-> "indefinite integral",
   domain |-> child.domain, children |-> <<child>>]

BoundaryValue(child, side) ==
  [kind |-> "BoundaryValue", name |-> "boundary", domain |-> <<>>,
   children |-> <<child>>, side |-> side]

\* a unary operator of the class with the given name, -child for Negate
UnaryOperator(name, child) ==
  [kind |-> "UnaryOperator", name |-> name, domain |-> child.domain,
   children |-> <<child>>]

Function(func, child) ==
  [kind |-> "Function", name |-> "function", domain |-> child.domain,
   children |-> <<child>>, func |-> func]

Ok(v) == [err |-> "none", val |-> v]
Fail(e) == [err |-> e, val |-> NoNode]

\* BinaryOperator.__init__: the domain is that of the children, which must agree
\* unless one of them is empty
BinaryOperator(class, left, right) ==
  IF left.domain = right.domain \/ right.domain = <<>>
  THEN Ok([kind |-> "BinaryOperator", name |-> class, domain |-> left.domain,
           children |-> <<left, right>>])
  ELSE IF left.domain = <<>>
  THEN Ok([kind |-> "BinaryOperator", name |-> class, domain |-> right.domain,
           children |-> <<left, right>>])
  ELSE Fail("DomainError")

\* the sides on which the boundary conditions b have an entry for a symbol
BoundarySides(b, id) ==
  IF \E i \in 1..Len(b) : b[i][1] = id
  THEN LET bc == b[CHOOSE i \in 1..Len(b) : b[i][1] = id][2]
       IN  {bc[j][1].name : j \in 1..Len(bc)}
  ELSE {}

\* what the gradient(child, discretised_child, bcs) of a spatial method returns:
\* a boundary condition on a side of the child adds a ghost cell on that side
DiscretisedGradient(child, discretised_child, b) ==
  [kind |-> "DiscretisedGradient", name |-> "grad", domain |-> child.domain,
   children |-> <<discretised_child>>,
   has_left_ghost_cell |-> "left" \in BoundarySides(b, SymbolId(child)),
   has_right_ghost_cell |-> "right" \in BoundarySides(b, SymbolId(child))]

\* what the divergence(child, discretised_child, bcs) of a spatial method returns
DiscretisedDivergence(child, discretised_child) ==
  [kind |-> "DiscretisedDivergence", name |-> "div", domain |-> child.domain,
   children |-> <<discretised_child>>]

\* what integral(domain, child, discretised_child) of a spatial method returns
DiscretisedIntegral(domain, child, discretised_child) ==
  [kind |-> "DiscretisedIntegral", name |-> "integral", domain |-> <<>>,
   children |-> <<discretised_child>>, integration_domain |-> domain]

\* what indefinite_integral(domain, child, discretised_child) of a spatial
\* method returns
DiscretisedIndefiniteIntegral(domain, child, discretised_child) ==
  [kind |-> "DiscretisedIndefiniteIntegral", name |-> "indefinite integral",
   domain |-> child.domain, children |-> <<discretised_child>>,
   integration_domain |-> domain]

\* what boundary_value(child, discretised_child, side) of a spatial method
\* returns
DiscretisedBoundaryValue(child, discretised_child, side) ==
  [kind |-> "DiscretisedBoundaryValue", name |-> "boundary", domain |-> <<>>,
   children |-> <<discretised_child>>, side |-> side]

\* what compute_diffusivity(symbol, extrapolate_left, extrapolate_right) of a
\* spatial method returns
compute_diffusivity(symbol, extrapolate_left, extrapolate_right) ==
  [kind |-> "Diffusivity", name |-> "diffusivity", domain |-> symbol.domain,
   children |-> <<symbol>>, extrapolate_left |-> extrapolate_left,
   extrapolate_right |-> extrapolate_right]

\* Symbol.pre_order: the node, then the nodes of its children from the left
ChildrenOf(s) == IF "children" \in DOMAIN s THEN s.children ELSE <<>>

RECURSIVE pre_order(_)
pre_order(s) ==
  <<s>> \o Flatten([i \in 1..Len(ChildrenOf(s)) |-> pre_order(ChildrenOf(s)[i])])

\* Symbol.has_gradient_and_not_divergence
has_gradient_and_not_divergence(s) ==
  /\ \E i \in 1..Len(pre_order(s)) : pre_order(s)[i].kind = "Gradient"
  /\ \A i \in 1..Len(pre_order(s)) : pre_order(s)[i].kind # "Divergence"

\* Symbol.has_left_ghost_cell and has_right_ghost_cell (False unless set)
has_left_ghost_cell(x) ==
  "has_left_ghost_cell" \in DOMAIN x /\ x.has_left_ghost_cell
has_right_ghost_cell(x) ==
  "has_right_ghost_cell" \in DOMAIN x /\ x.has_right_ghost_cell

\* lines 378-383 and 393-398: any(...) over the pre-order of a rewritten child
ExtrapolateLeft(new_child) ==
  \E i \in 1..Len(pre_order(new_child)) : has_left_ghost_cell(pre_order(new_child)[i])
ExtrapolateRight(new_child) ==
  \E i \in 1..Len(pre_order(new_child)) : has_right_ghost_cell(pre_order(new_child)[i])

\* lines 361-403 with the diffusivity computed for the child that has the
\* gradient itself
AverageGradientSide(bin_op, new_left, new_right) ==
  LET left == bin_op.children[1]
      right == bin_op.children[2]
  IN  IF has_gradient_and_not_divergence(left)
           = has_gradient_and_not_divergence(right)
      THEN BinaryOperator(bin_op.name, new_left, new_right)
      ELSE IF bin_op.domain = <<>> THEN Fail("IndexError")
      ELSE IF bin_op.domain[1] \notin DOMAIN spatial_methods THEN Fail("KeyError")
      ELSE IF has_gradient_and_not_divergence(left)
      THEN BinaryOperator(
             bin_op.name,
             compute_diffusivity(new_left, ExtrapolateLeft(new_left),
                                 ExtrapolateRight(new_left)),
             new_right)
      ELSE BinaryOperator(
             bin_op.name, new_left,
             compute_diffusivity(new_right, ExtrapolateLeft(new_right),
                                 ExtrapolateRight(new_right)))

\* process_binary_operators after both children are rewritten (lines 364-403)
AverageDiffusivity(bin_op, new_left, new_right) ==
  LET left == bin_op.children[1]
      right == bin_op.children[2]
  IN  IF has_gradient_and_not_divergence(left)
           = has_gradient_and_not_divergence(right)
      THEN BinaryOperator(bin_op.name, new_left, new_right)
      ELSE IF bin_op.domain = <<>> THEN Fail("IndexError")
      ELSE IF bin_op.domain[1] \notin DOMAIN spatial_methods THEN Fail("KeyError")
      ELSE IF has_gradient_and_not_divergence(left)
      THEN BinaryOperator(
             bin_op.name, new_left,
             compute_diffusivity(new_right, ExtrapolateLeft(new_left),
                                 ExtrapolateRight(new_left)))
      ELSE BinaryOperator(
             bin_op.name,
             compute_diffusivity(new_left, ExtrapolateLeft(new_right),
                                 ExtrapolateRight(new_right)),
             new_right)

\* the first child that failed raises, else the children are combined
process_binary_operators(bin_op, new_left, new_right) ==
  IF new_left.err # "none" THEN new_left
  ELSE IF new_right.err # "none" THEN new_right
  ELSE AverageDiffusivity(bin_op, new_left.val, new_right.val)

\* line 327 with the domain argument left out: a StateVector without a domain
DiscretisedVariableNoDomain(symbol, slices) ==
  IF SymbolId(symbol) \in DOMAIN slices
  THEN Ok(StateVector(slices[SymbolId(symbol)], <<>>))
  ELSE Fail("KeyError")

\* lines 266-293 and 308-312: the operator is handed to the spatial method of
\* the first domain of its child, with the child and the discretised child dc
OnChildDomain(symbol, child, dc, b) ==
  IF dc.err # "none" THEN dc
  ELSE IF child.domain = <<>> THEN Fail("IndexError")
  ELSE IF child.domain[1] \notin DOMAIN spatial_methods THEN Fail("KeyError")
  ELSE CASE symbol.kind = "Gradient" -> Ok(DiscretisedGradient(child, dc.val, b))
         [] symbol.kind = "Divergence" -> Ok(DiscretisedDivergence(child, dc.val))
         [] symbol.kind = "Integral" ->
              Ok(DiscretisedIntegral(child.domain, child, dc.val))
         [] symbol.kind = "IndefiniteIntegral" ->
              Ok(DiscretisedIndefiniteIntegral(child.domain, child, dc.val))
         [] symbol.kind = "BoundaryValue" ->
              Ok(DiscretisedBoundaryValue(child, dc.val, symbol.side))

\* lines 318-320: pybamm.Function(symbol.func, new_child)
ProcessedFunction(symbol, new_child) ==
  IF new_child.err # "none" THEN new_child
  ELSE Ok([symbol EXCEPT !.children = <<new_child.val>>,
                         !.domain = new_child.val.domain])

\* lines 322-324: symbol.__class__(new_child)
ProcessedUnaryOperator(symbol, new_child) ==
  IF new_child.err # "none" THEN new_child
  ELSE Ok([symbol EXCEPT !.children = <<new_child.val>>,
                         !.domain = new_child.val.domain])

\* lines 326-327: the StateVector of a Variable, or the KeyError of the lookup
DiscretisedVariable(symbol, slices) ==
  IF SymbolId(symbol) \in DOMAIN slices
  THEN Ok(StateVector(slices[SymbolId(symbol)], symbol.domain))
  ELSE Fail("KeyError")

RECURSIVE process_symbol(_, _, _)
process_symbol(symbol, slices, b) ==
  CASE symbol.kind \in {"Gradient", "Divergence", "Integral", "IndefiniteIntegral",
                         "BoundaryValue"} ->
         OnChildDomain(symbol, symbol.children[1],
                       process_symbol(symbol.children[1], slices, b), b)
    [] symbol.kind = "Function" ->
         ProcessedFunction(symbol, process_symbol(symbol.children[1], slices, b))
    [] symbol.kind = "UnaryOperator" ->
         ProcessedUnaryOperator(symbol, process_symbol(symbol.children[1], slices, b))
    [] symbol.kind = "BinaryOperator" ->
         process_binary_operators(
           symbol, process_symbol(symbol.children[1], slices, b),
           process_symbol(symbol.children[2], slices, b))
    [] symbol.kind \in {"Broadcast", "NumpyBroadcast"} ->
         LET nc == process_symbol(symbol.children[1], slices, b)
         IN  IF nc.err # "none" THEN nc
             ELSE IF symbol.domain = <<>>
                  THEN Ok(NumpyBroadcast(nc.val, symbol.domain, 1))
             ELSE IF symbol.domain[1] \notin DOMAIN spatial_methods THEN Fail("KeyError")
             ELSE IF \E d \in Range(symbol.domain) : d \notin DOMAIN mesh
                  THEN Fail("KeyError")
             ELSE Ok(MethodBroadcast(nc.val, symbol.domain))
    [] symbol.kind = "SpatialVariable" ->
         IF symbol.domain = <<>> THEN Fail("IndexError")
         ELSE IF symbol.domain[1] \notin DOMAIN spatial_methods THEN Fail("KeyError")
         ELSE Ok([kind |-> "Vector", name |-> "vector", domain |-> symbol.domain,
                  entries |-> [i \in 1..VariableSize(symbol) |-> i]])
    [] symbol.kind = "Variable" -> DiscretisedVariable(symbol, slices)
    [] IsConcatenation(symbol) ->
         LET nc == [i \in 1..Len(symbol.children) |->
                      process_symbol(symbol.children[i], slices, b)]
             bad == {i \in 1..Len(nc) : nc[i].err # "none"}
         IN  IF bad # {} THEN nc[CHOOSE i \in bad : \A j \in bad : i <= j]
             ELSE DomainConcatenation([i \in 1..Len(nc) |-> nc[i].val])
    [] OTHER -> Ok(symbol)

(***************************************************************************)
(* Discretisation.process_dict                                             *)
(***************************************************************************)
\* a dictionary key that is a string (an output-variable name or a side)
StrKey(name) == [kind |-> "str", name |-> name, domain |-> <<>>]

Keys(d) == [i \in 1..Len(d) |-> d[i][1]]
Values(d) == [i \in 1..Len(d) |-> d[i][2]]

\* lines 238-245 without the test of line 239: string keys are broadcast to
BroadcastToAnyKey(eqn_key, eqn) ==
  IF evaluates_to_number(eqn)
  THEN IF eqn_key.domain = <<>>
       THEN (IF BroadcastDomainOk(eqn, eqn_key.domain)
             THEN Ok(BroadcastNode(eqn, eqn_key.domain)) ELSE Fail("DomainError"))
       ELSE IF eqn_key.domain[1] \notin DOMAIN spatial_methods THEN Fail("KeyError")
       ELSE IF \E d \in Range(eqn_key.domain) : d \notin DOMAIN mesh
            THEN Fail("KeyError")
       ELSE Ok(MethodBroadcast(eqn, eqn_key.domain))
  ELSE Ok(eqn)

\* lines 238-245: the equation handed to process_symbol for one item
BroadcastToKey(eqn_key, eqn) ==
  IF evaluates_to_number(eqn) /\ eqn_key.kind # "str"
  THEN IF eqn_key.domain = <<>>
       THEN (IF BroadcastDomainOk(eqn, eqn_key.domain)
             THEN Ok(BroadcastNode(eqn, eqn_key.domain)) ELSE Fail("DomainError"))
       ELSE IF eqn_key.domain[1] \notin DOMAIN spatial_methods THEN Fail("KeyError")
       ELSE IF \E d \in Range(eqn_key.domain) : d \notin DOMAIN mesh
            THEN Fail("KeyError")
       ELSE Ok(MethodBroadcast(eqn, eqn_key.domain))
  ELSE Ok(eqn)

\* lines 238-246 for one item: broadcast to the key, then process_symbol
ProcessBroadcasted(eqn, slices, b) ==
  IF eqn.err # "none" THEN eqn ELSE process_symbol(eqn.val, slices, b)

ProcessItem(eqn_key, eqn, slices, b) ==
  ProcessBroadcasted(BroadcastToKey(eqn_key, eqn), slices, b)

\* the loop of lines 235-248; the dictionary is updated in place, so on an
\* error the items already visited stay replaced
RECURSIVE ProcessDictLoop(_, _, _, _)
RECURSIVE StoreItem(_, _, _, _, _)
StoreItem(d, i, slices, b, r) ==
  IF r.err # "none" THEN [err |-> r.err, val |-> d]
  ELSE ProcessDictLoop([d EXCEPT ![i] = <<d[i][1], r.val>>], i + 1, slices, b)

ProcessDictLoop(d, i, slices, b) ==
  IF i > Len(d) THEN [err |-> "none", val |-> d]
  ELSE StoreItem(d, i, slices, b, ProcessItem(d[i][1], d[i][2], slices, b))

process_dict(var_eqn_dict, slices, b) == ProcessDictLoop(var_eqn_dict, 1, slices, b)

(***************************************************************************)
(* Discretisation._concatenate_init                                        *)
(***************************************************************************)
SliceLess(a, b) == a.start < b.start \/ (a.start = b.start /\ a.stop < b.stop)

\* pairs with different slices in increasing order of their slices
RECURSIVE SortBySlice(_)
SortBySlice(pairs) ==
  IF pairs = <<>> THEN <<>>
  ELSE LET m == CHOOSE i \in 1..Len(pairs) :
                  \A j \in 1..Len(pairs) :
                     j # i => SliceLess(pairs[i][1], pairs[j][1])
       IN  <<pairs[m]>> \o SortBySlice([k \in 1..(Len(pairs) - 1) |->
                                          IF k < m THEN pairs[k] ELSE pairs[k + 1]])

\* two pairs with the same slice: sorted() has to order them by their second
\* items, and every sort compares the two, which end up next to each other
ComparesEquations(pairs) ==
  \E i, j \in 1..Len(pairs) : i # j /\ pairs[i][1] = pairs[j][1]

\* sorted(zip(slices, equations)), line 449: tuples are compared item by item.
\* The equations are the distinct symbols process_symbol made, and symbols
\* define neither an order nor an equality: comparing two of them raises
\* TypeError
SortPairs(pairs) ==
  IF ComparesEquations(pairs) THEN [err |-> "TypeError", val |-> <<>>]
  ELSE [err |-> "none", val |-> SortBySlice(pairs)]

Min(a, b) == IF a < b THEN a ELSE b

\* the equations in the order in which _concatenate_init concatenates them
\* (lines 445-449); zip stops at the shorter list
SortedEquations(var_eqn_dict, slices) ==
  LET unpacked_variables == UnpackVariables(Keys(var_eqn_dict))
      equations == Values(var_eqn_dict)
      sl == [i \in 1..Len(unpacked_variables) |->
               slices[SymbolId(unpacked_variables[i])]]
      zipped == [i \in 1..Min(Len(sl), Len(equations)) |-> <<sl[i], equations[i]>>]
      sorted == SortPairs(zipped)
  IN  IF sorted.err # "none" THEN [err |-> sorted.err, val |-> <<>>]
      ELSE [err |-> "none", val |-> [i \in 1..Len(sorted.val) |-> sorted.val[i][2]]]

\* the test of line 438
InitKeysMatch(var_eqn_dict, slices) ==
  LET unpacked_variables == UnpackVariables(Keys(var_eqn_dict))
  IN  {SymbolId(unpacked_variables[i]) : i \in 1..Len(unpacked_variables)}
        = DOMAIN slices

\* lines 449-451: the sorted equations in one NumpyConcatenation
ConcatenateSorted(equations) ==
  IF equations.err # "none"
  THEN [err |-> equations.err, val |-> NoNode, names |-> <<>>]
  ELSE [err |-> "none", val |-> NumpyConcatenation(equations.val), names |-> <<>>]

\* _concatenate_init: the concatenation, ModelError with the given names, or
\* the TypeError of the sort
concatenate_init(var_eqn_dict, slices) ==
  IF ~InitKeysMatch(var_eqn_dict, slices)
  THEN [err |-> "ModelError", val |-> NoNode,
        names |-> [i \in 1..Len(var_eqn_dict) |-> var_eqn_dict[i][1].name]]
  ELSE ConcatenateSorted(SortedEquations(var_eqn_dict, slices))

(***************************************************************************)
(* The model bundle                                                        *)
(***************************************************************************)
\* concatenated_initial_conditions before it is set (None)
NoArray == [set |-> FALSE, val |-> <<>>]
Array(v) == [set |-> TRUE, val |-> v]

\* a model as authored: the concatenated fields and the mass matrix are None
BaseModel(rhs, algebraic, initial_conditions, boundary_conditions, variables, events) ==
  [rhs |-> rhs, algebraic |-> algebraic, initial_conditions |-> initial_conditions,
   boundary_conditions |-> boundary_conditions, variables |-> variables,
   events |-> events,
   concatenated_rhs |-> NoNode, concatenated_algebraic |-> NoNode,
   concatenated_initial_conditions |-> NoArray,
   concatenated_events |-> NoNode, mass_matrix |-> <<>>, has_mass_matrix |-> FALSE]

\* index of the item of a dictionary with the given key, 0 if there is none
Lookup(d, key) ==
  IF \E i \in 1..Len(d) : d[i][1] = key
  THEN CHOOSE i \in 1..Len(d) : d[i][1] = key
  ELSE 0

(***************************************************************************)
(* Discretisation.create_mass_matrix                                       *)
(***************************************************************************)
\* y0 = model.concatenated_initial_conditions as handed to evaluate(0, y0): None
\* until process_initial_conditions has set it
Y0Of(mdl) ==
  IF mdl.concatenated_initial_conditions.set
  THEN SomeY(mdl.concatenated_initial_conditions.val)
  ELSE NoY

\* what mass_matrix(var, bcs) of a spatial method returns: a matrix of the
\* method for that variable and those boundary conditions, with one row per
\* mesh point of the variable's domains on the mesh of the method
mass_matrix(method, var, b) ==
  IF \E d \in Range(var.domain) : d \notin DOMAIN method.mesh THEN Fail("KeyError")
  ELSE Ok([type |-> "mass", method |-> method.method, variable |-> SymbolId(var),
           bcs |-> b, size |-> VariableSize(var)])

\* MassBlock asking the method of the last domain of the variable
MassBlockLastDomain(var, b) ==
  IF var.domain = <<>> THEN Ok([type |-> "one", size |-> 1])
  ELSE IF var.domain[Len(var.domain)] \notin DOMAIN spatial_methods THEN Fail("KeyError")
  ELSE mass_matrix(spatial_methods[var.domain[Len(var.domain)]], var, b)

\* the block of one rhs variable (lines 183-192): 1.0 without a domain, else
\* self._spatial_methods[var.domain[0]].mass_matrix(var, self._bcs).entries
MassBlock(var, b) ==
  IF var.domain = <<>> THEN Ok([type |-> "one", size |-> 1])
  ELSE IF var.domain[1] \notin DOMAIN spatial_methods THEN Fail("KeyError")
  ELSE mass_matrix(spatial_methods[var.domain[1]], var, b)

\* the loop of lines 183-192 over the keys of model.rhs: the list of blocks, or
\* the exception of the first block that raised
RECURSIVE MassBlocks(_, _, _, _)
StoreBlock(rhs, i, b, mass_list, block) ==
  IF block.err # "none" THEN [err |-> block.err, val |-> <<>>]
  ELSE MassBlocks(rhs, i + 1, b, Append(mass_list, block.val))

MassBlocks(rhs, i, b, mass_list) ==
  IF i > Len(rhs) THEN [err |-> "none", val |-> mass_list]
  ELSE StoreBlock(rhs, i, b, mass_list, MassBlock(rhs[i][1], b))

\* lines 197-200: the zero block has the side of the evaluated algebraic part,
\* its shape[0]; a number has no shape
AppendZeroBlock(mass_list, a) ==
  IF a.err # "none" THEN [err |-> a.err, val |-> <<>>]
  ELSE IF a.num THEN [err |-> "AttributeError", val |-> <<>>]
  ELSE [err |-> "none",
        val |-> Append(mass_list, [type |-> "zero", size |-> Len(a.val)])]

\* lines 195-200: the zero block is appended when model.algebraic has keys
AlgebraicBlock(mdl, mass_list) ==
  IF mass_list.err # "none" THEN mass_list
  ELSE IF mdl.algebraic # <<>>
       THEN AppendZeroBlock(mass_list.val,
                            Evaluate(mdl.concatenated_algebraic, 0, Y0Of(mdl)))
  ELSE mass_list

\* block_diag(mass_list), line 202: scipy raises ValueError on an empty list
block_diag(mass_list) ==
  IF mass_list.err # "none" THEN mass_list
  ELSE IF mass_list.val = <<>> THEN [err |-> "ValueError", val |-> <<>>]
  ELSE mass_list

\* create_mass_matrix (lines 166-203) with self._bcs = b: the blocks of the
\* matrix, or the exception raised on the way
create_mass_matrix(mdl, b) ==
  block_diag(AlgebraicBlock(mdl, MassBlocks(mdl.rhs, 1, b, <<>>)))

(***************************************************************************)
(* Discretisation.check_model                                              *)
(***************************************************************************)
\* the exception an `assert cond, pybamm.ModelError(...)` raises when it fails
AssertFailure == "AssertionError"

NoInfo == [carries |-> "none", names |-> <<>>, shapes |-> <<>>]

Passed == [err |-> "none", info |-> NoInfo]
Raised(e) == [err |-> e, info |-> NoInfo]
Failed(names, shapes) ==
  [err |-> AssertFailure,
   info |-> [carries |-> "ModelError", names |-> names, shapes |-> shapes]]

\* a check that passed lets the next statement run
AndThen(c, next) == IF c.err # "none" THEN c ELSE next

\* lines 457-465: an initial condition evaluates to an array at (0, None)
IsArray(name, e) ==
  IF e.err # "none" THEN Raised(e.err)
  ELSE IF e.num THEN Failed(<<name>>, <<>>)
  ELSE Passed

\* lines 466-476: model.concatenated_initial_conditions is an array, not None
IsConcatenatedArray(mdl) ==
  IF mdl.concatenated_initial_conditions.set THEN Passed ELSE Failed(<<>>, <<>>)

\* lines 457-476: the assertion on every initial condition in dict order, then
\* the one on the concatenated initial conditions
RECURSIVE CheckInitialArrays(_, _)
CheckInitialArrays(mdl, i) ==
  IF i > Len(mdl.initial_conditions) THEN IsConcatenatedArray(mdl)
  ELSE AndThen(IsArray(mdl.initial_conditions[i][1].name,
                       Evaluate(mdl.initial_conditions[i][2], 0, NoY)),
               CheckInitialArrays(mdl, i + 1))

\* lines 482-494: the assertion on the two shapes; a number has no shape
SameShape(name, r, c) ==
  IF r.err # "none" THEN Raised(r.err)
  ELSE IF r.num THEN Raised("AttributeError")
  ELSE IF c.err # "none" THEN Raised(c.err)
  ELSE IF c.num THEN Raised("AttributeError")
  ELSE IF Len(r.val) # Len(c.val) THEN Failed(<<name>>, <<Len(r.val), Len(c.val)>>)
  ELSE Passed

\* model.initial_conditions[var].evaluate(0, None), KeyError without the key
InitialConditionOf(mdl, k) ==
  IF k = 0 THEN Raise("KeyError")
  ELSE Evaluate(mdl.initial_conditions[k][2], 0, NoY)

\* lines 481-494: rhs and initial condition of each rhs variable have one shape
RECURSIVE CheckRhsShapes(_, _)
CheckRhsShapes(mdl, i) ==
  IF i > Len(mdl.rhs) THEN Passed
  ELSE AndThen(
         SameShape(mdl.rhs[i][1].name,
                   Evaluate(mdl.rhs[i][2], 0,
                            Y0Of(mdl)),
                   InitialConditionOf(mdl, Lookup(mdl.initial_conditions,
                                                  mdl.rhs[i][1]))),
         CheckRhsShapes(mdl, i + 1))

\* lines 496-510: the assertion on the three sizes, taken from left to right;
\* neither a number nor None has a shape
SizesAddUp(r, a, y0) ==
  IF r.err # "none" THEN Raised(r.err)
  ELSE IF r.num THEN Raised("AttributeError")
  ELSE IF a.err # "none" THEN Raised(a.err)
  ELSE IF a.num THEN Raised("AttributeError")
  ELSE IF ~y0.set THEN Raised("AttributeError")
  ELSE IF Len(r.val) + Len(a.val) # Len(y0.val)
       THEN Failed(<<>>, <<Len(r.val), Len(a.val), Len(y0.val)>>)
  ELSE Passed

\* lines 496-510: the concatenated vectors add up to the initial conditions
CheckConcatenated(mdl) ==
  SizesAddUp(
    Evaluate(mdl.concatenated_rhs, 0, Y0Of(mdl)),
    Evaluate(mdl.concatenated_algebraic, 0,
             Y0Of(mdl)),
    mdl.concatenated_initial_conditions)

\* lines 517-529: the assertion on an output variable, lenient for a broadcast;
\* both shapes are taken before the comparison, and a number has no shape
SameShapeAsVariable(name, variable, r, v) ==
  IF r.err # "none" THEN Raised(r.err)
  ELSE IF r.num THEN Raised("AttributeError")
  ELSE IF v.err # "none" THEN Raised(v.err)
  ELSE IF v.num THEN Raised("AttributeError")
  ELSE IF Len(r.val) # Len(v.val) /\ variable.kind # "NumpyBroadcast"
       THEN Failed(<<name>>, <<Len(v.val), Len(r.val)>>)
  ELSE Passed

CheckVariable(mdl, i, k) ==
  IF k = 0 THEN Passed
  ELSE SameShapeAsVariable(
         mdl.rhs[i][1].name, mdl.variables[k][2],
         Evaluate(mdl.rhs[i][2], 0, Y0Of(mdl)),
         Evaluate(mdl.variables[k][2], 0,
                  Y0Of(mdl)))

\* lines 514-529: an output variable named like a rhs variable has its shape
RECURSIVE CheckVariables(_, _)
CheckVariables(mdl, i) ==
  IF i > Len(mdl.rhs) THEN Passed
  ELSE AndThen(CheckVariable(mdl, i, Lookup(mdl.variables, StrKey(mdl.rhs[i][1].name))),
               CheckVariables(mdl, i + 1))

check_model(mdl) ==
  AndThen(CheckInitialArrays(mdl, 1),
  AndThen(CheckRhsShapes(mdl, 1),
  AndThen(CheckConcatenated(mdl),
          CheckVariables(mdl, 1))))

(***************************************************************************)
(* Discretisation.process_model                                            *)
(***************************************************************************)
\* the steps of process_model, in the order of lines 55-90
Steps == <<"slices", "boundary_conditions", "initial_conditions", "rhs",
           "algebraic", "variables", "events", "mass_matrix", "jacobian", "check">>

Outcome(e, at, inf, m, slices, b) ==
  [err |-> e, step |-> at, info |-> inf, model |-> m, slices |-> slices,
   bcs |-> b]

\* lines 62-65: process_dict on the dictionary of every boundary-condition key
RECURSIVE ProcessBcs(_, _, _, _)
RECURSIVE StoreBc(_, _, _, _, _)
StoreBc(bc, i, slices, b, r) ==
  IF r.err # "none" THEN [err |-> r.err, val |-> [bc EXCEPT ![i] = <<bc[i][1], r.val>>]]
  ELSE ProcessBcs([bc EXCEPT ![i] = <<bc[i][1], r.val>>], i + 1, slices, b)

ProcessBcs(bc, i, slices, b) ==
  IF i > Len(bc) THEN [err |-> "none", val |-> bc]
  ELSE StoreBc(bc, i, slices, b, process_dict(bc[i][2], slices, b))

\* lines 79-80: the events are replaced one by one in the list
RECURSIVE ProcessEvents(_, _, _, _)
RECURSIVE StoreEvent(_, _, _, _, _)
StoreEvent(events, i, slices, b, r) ==
  IF r.err # "none" THEN [err |-> r.err, val |-> events]
  ELSE ProcessEvents([events EXCEPT ![i] = r.val], i + 1, slices, b)

ProcessEvents(events, i, slices, b) ==
  IF i > Len(events) THEN [err |-> "none", val |-> events]
  ELSE StoreEvent(events, i, slices, b, process_symbol(events[i], slices, b))

\* the outcome of check_model as the outcome of the last step (line 90)
Checked(m, slices, b, c) == Outcome(c.err, "check", c.info, m, slices, b)

CheckStep(m, slices, b) == Checked(m, slices, b, check_model(m))

\* lines 83-87
StoreMassMatrix(m, slices, b, mm) ==
  IF mm.err # "none" THEN Outcome(mm.err, "mass_matrix", NoInfo, m, slices, b)
  ELSE CheckStep([m EXCEPT !.mass_matrix = mm.val, !.has_mass_matrix = TRUE],
                 slices, b)

\* MassMatrixStep going on to the validation without a mass matrix
SkipMassMatrix(m, slices, b) == CheckStep(m, slices, b)

MassMatrixStep(m, slices, b) ==
  StoreMassMatrix(m, slices, b, create_mass_matrix(m, b))

\* lines 78-81
StoreEvents(m, slices, b, ev) ==
  IF ev.err # "none"
  THEN Outcome(ev.err, "events", NoInfo, [m EXCEPT !.events = ev.val], slices, b)
  ELSE MassMatrixStep([m EXCEPT !.events = ev.val,
                                !.concatenated_events = NumpyConcatenation(ev.val)],
                      slices, b)

EventsStep(m, slices, b) == StoreEvents(m, slices, b, ProcessEvents(m.events, 1, slices, b))

\* line 76
StoreVariables(m, slices, b, v) ==
  IF v.err # "none"
  THEN Outcome(v.err, "variables", NoInfo, [m EXCEPT !.variables = v.val], slices, b)
  ELSE EventsStep([m EXCEPT !.variables = v.val], slices, b)

VariablesStep(m, slices, b) == StoreVariables(m, slices, b, process_dict(m.variables, slices, b))

\* process_rhs_and_algebraic, lines 162-164
StoreAlgebraic(m, slices, b, a) ==
  IF a.err # "none"
  THEN Outcome(a.err, "algebraic", NoInfo, [m EXCEPT !.algebraic = a.val], slices, b)
  ELSE Outcome("none", "algebraic", NoInfo,
               [m EXCEPT !.algebraic = a.val,
                         !.concatenated_algebraic = NumpyConcatenation(Values(a.val))],
               slices, b)

AlgebraicStep(m, slices, b) == StoreAlgebraic(m, slices, b, process_dict(m.algebraic, slices, b))

\* process_rhs_and_algebraic, lines 158-160
StoreRhs(m, slices, b, r) ==
  IF r.err # "none"
  THEN Outcome(r.err, "rhs", NoInfo, [m EXCEPT !.rhs = r.val], slices, b)
  ELSE AlgebraicStep([m EXCEPT !.rhs = r.val,
                               !.concatenated_rhs = NumpyConcatenation(Values(r.val))],
                     slices, b)

\* process_rhs_and_algebraic(model) (lines 147-164) with self._y_slices = slices
\* and self._bcs = b: the model as the call leaves it, the exception it raised
\* and the dictionary it raised on
process_rhs_and_algebraic(m, slices, b) ==
  StoreRhs(m, slices, b, process_dict(m.rhs, slices, b))

\* process_model after line 71
AfterRhsAndAlgebraic(o) ==
  IF o.err # "none" THEN o ELSE VariablesStep(o.model, o.slices, o.bcs)

\* line 71
RhsAndAlgebraicStep(m, slices, b) ==
  AfterRhsAndAlgebraic(process_rhs_and_algebraic(m, slices, b))

\* process_initial_conditions, line 145: the concatenation is evaluated at (0, None)
StoreInitialArray(m, slices, b, y0) ==
  IF y0.err # "none" THEN Outcome(y0.err, "initial_conditions", NoInfo, m, slices, b)
  ELSE Outcome("none", "initial_conditions", NoInfo,
               [m EXCEPT !.concatenated_initial_conditions = Array(y0.val)], slices, b)

\* what the exception of _concatenate_init carries: the ModelError its names
InitInfo(c) ==
  IF c.err = "ModelError"
  THEN [carries |-> c.err, names |-> c.names, shapes |-> <<>>]
  ELSE NoInfo

\* process_initial_conditions, lines 143-145
ConcatenateInitial(m, slices, b, c) ==
  IF c.err # "none"
  THEN Outcome(c.err, "initial_conditions", InitInfo(c), m, slices, b)
  ELSE StoreInitialArray(m, slices, b, Evaluate(c.val, 0, NoY))

\* process_initial_conditions, lines 139-141: the processed dictionary is stored
\* in the model before it is concatenated
StoreInitialConditions(m, slices, b, ic) ==
  IF ic.err # "none"
  THEN Outcome(ic.err, "initial_conditions", NoInfo,
               [m EXCEPT !.initial_conditions = ic.val], slices, b)
  ELSE ConcatenateInitial([m EXCEPT !.initial_conditions = ic.val], slices, b,
                          concatenate_init(ic.val, slices))

\* process_initial_conditions(model) (lines 127-145) with self._y_slices =
\* slices and self._bcs = b: the model as the call leaves it and the exception
\* it raised
process_initial_conditions(m, slices, b) ==
  StoreInitialConditions(m, slices, b, process_dict(m.initial_conditions, slices, b))

\* process_model after line 68
AfterInitialConditions(o) ==
  IF o.err # "none" THEN o ELSE RhsAndAlgebraicStep(o.model, o.slices, o.bcs)

\* line 68
InitialConditionsStep(m, slices, b) ==
  AfterInitialConditions(process_initial_conditions(m, slices, b))

\* lines 62-65
StoreBcs(m, slices, b, bc) ==
  IF bc.err # "none"
  THEN Outcome(bc.err, "boundary_conditions", NoInfo,
               [m EXCEPT !.boundary_conditions = bc.val], slices, b)
  ELSE InitialConditionsStep(
         [m EXCEPT !.boundary_conditions = bc.val], slices,
         [i \in 1..Len(bc.val) |-> <<SymbolId(bc.val[i][1]), bc.val[i][2]>>])

BoundaryConditionsStep(m, slices, b) ==
  StoreBcs(m, slices, b, ProcessBcs(m.boundary_conditions, 1, slices, b))

\* line 58
StoreSlices(m, old_slices, old_bcs, s) ==
  IF s.err # "none" THEN Outcome(s.err, "slices", NoInfo, m, old_slices, old_bcs)
  ELSE BoundaryConditionsStep(m, s.val, old_bcs)

\* process_model (lines 55-90): old_slices and old_bcs are self._y_slices and
\* self._bcs before the call
process_model(m, old_slices, old_bcs) ==
  StoreSlices(m, old_slices, old_bcs,
              set_variable_slices(Keys(m.rhs) \o Keys(m.algebraic)))

(***************************************************************************)
(* Inputs                                                                  *)
(***************************************************************************)
Neg == <<"negative electrode">>
Sep == <<"separator">>
Pos == <<"positive electrode">>

VarA == Variable("a", <<>>)
VarB == Variable("b", <<>>)
VarC == Variable("c", <<>>)
VarN == Variable("n", Neg)
VarS == Variable("s", Sep)
VarP == Variable("p", Pos)
VarX == Variable("x", <<"test">>)

VarSP == Variable("sp", Sep \o Pos)

VarPool == {VarA, VarB, VarC, VarN, VarS, VarP, VarSP, VarX}

ConcPool ==
  { ConcatenationNode(<<VarN, VarS, VarP>>, Neg \o Sep \o Pos),
    ConcatenationNode(<<VarS, VarN>>, Neg \o Sep) }

\* entries of the lists given to set_variable_slices
ListEntries == VarPool \cup ConcPool

\* dictionaries with at most n items, distinct keys, and a value for each key
\* taken from Eqns(key)
DictsOver(keys, Eqns(_), n) ==
  {d \in SeqsUpTo(UNION {{<<k, e>> : e \in Eqns(k)} : k \in keys}, n) :
     \A i, j \in 1..Len(d) : i # j => d[i][1] # d[j][1]}

\* right-hand sides: a constant vector or a state variable
RhsEqns(key) ==
  CASE key = VarA -> {Vector(<<5, 6>>, key.domain), VarA}
    [] key = VarN -> {Vector(<<5, 6>>, key.domain), VarB}
    [] OTHER      -> {key}
AlgEqns(key) == {Scalar(4), key}
IcEqns(key) == {Scalar(3), Vector(<<8, 9>>, key.domain)}

\* boundary conditions, output variables and events of a model
NoExtras == [boundary_conditions |-> <<>>, variables |-> <<>>, events |-> <<>>]
SomeExtras ==
  [boundary_conditions |->
     << <<VarN, << <<StrKey("left"), Scalar(0)>>, <<StrKey("right"), VarA>> >> >> >>,
   variables |-> << <<StrKey("a"), VarA>>, <<StrKey("two"), Scalar(2)>> >>,
   events |-> <<VarA>>]
OtherExtras ==
  [boundary_conditions |-> <<>>,
   variables |-> << <<StrKey("n"), VarN>>, <<StrKey("b"), VarB>> >>,
   events |-> <<VarN, VarA>>]

\* the dictionaries and extras a model given to process_model is made of
RhsInputs == DictsOver({VarA, VarN, VarX}, RhsEqns, MaxRhs)
AlgebraicInputs == DictsOver({VarB, VarA}, AlgEqns, MaxAlg)
InitialConditionInputs == DictsOver({VarA, VarB, VarN}, IcEqns, MaxIc)
ExtrasInputs == {NoExtras, SomeExtras, OtherExtras}

\* models with algebraic equations and a concatenation of variables as a key
ConcNS == ConcatenationNode(<<VarN, VarS>>, Neg \o Sep)

DaeRhsEqns(key) ==
  CASE key = ConcNS ->
         {ConcNS, ConcatenationNode(<<VarN, BroadcastNode(Time, Sep)>>, Neg \o Sep)}
    [] OTHER -> {key}
DaeAlgEqns(key) == IF key = VarB THEN {VarB, VarA} ELSE {key}
DaeIcEqns(key) ==
  CASE key = VarA   -> {Scalar(3)}
    [] key = VarB   -> {Scalar(4)}
    [] key = ConcNS -> {Scalar(5)}
    [] OTHER        -> {Scalar(6)}

DaeRhsInputs == DictsOver({VarA, ConcNS, VarX}, DaeRhsEqns, MaxRhs)
DaeAlgebraicInputs == DictsOver({VarB, VarP}, DaeAlgEqns, MaxAlg)
\* one initial condition for every rhs key and every algebraic key at most
DaeInitialConditionInputs ==
  DictsOver({VarA, VarB, ConcNS, VarP}, DaeIcEqns, MaxRhs + MaxAlg)

\* an equation that is its own key
KeyItself(key) == {key}

\* models for process_initial_conditions: a rhs keyed by a variable and by a
\* concatenation, and initial conditions (numbers) keyed by these, by one
\* variable of the concatenation, or by a variable over a domain without method
IcNumber(key) == {Scalar(3)}
IcRhsInputs == DictsOver({VarA, ConcNS}, KeyItself, MaxRhs)
IcInitialConditionInputs == DictsOver({VarA, VarN, ConcNS, VarX}, IcNumber, MaxIc)

\* registries for the mass matrix: one method for the whole cell, one class per
\* electrode domain, no method for the separator, and a method for a domain the
\* mesh does not have
MassRegistries ==
  { [k \in {"macroscale"} |-> "FiniteVolume"],
    [k \in MacroscaleDomains |->
       IF k = "negative electrode" THEN "MockSpatialMethod" ELSE "FiniteVolume"],
    [k \in {"negative electrode", "positive electrode"} |->
       IF k = "positive electrode" THEN "MockSpatialMethod" ELSE "FiniteVolume"],
    [k \in {"macroscale", "test"} |->
       IF k = "test" THEN "MockSpatialMethod" ELSE "FiniteVolume"] }

\* the initial condition of every key of a model, rhs keys first
DaeIcOf(key) == CHOOSE e \in DaeIcEqns(key) : TRUE
CompleteInitialConditions(rhs, algebraic) ==
  [i \in 1..(Len(rhs) + Len(algebraic)) |->
     IF i <= Len(rhs) THEN <<rhs[i][1], DaeIcOf(rhs[i][1])>>
     ELSE <<algebraic[i - Len(rhs)][1], DaeIcOf(algebraic[i - Len(rhs)][1])>>]

\* the rhs of a model made by hand for create_mass_matrix: only the keys count
MassRhsInputs == DictsOver({VarA, VarS, ConcNS, VarX, VarSP}, KeyItself, MaxRhs)

\* the algebraic side of such a model: the dictionary, its concatenation and
\* the concatenated initial conditions, which may still be None
AlgebraicPart(algebraic, concatenated_algebraic, y0) ==
  [algebraic |-> algebraic, concatenated_algebraic |-> concatenated_algebraic,
   concatenated_initial_conditions |-> y0]

AlgebraicParts ==
  { AlgebraicPart(<<>>, NoNode, NoArray),
    AlgebraicPart(<<>>, Vector(<<1, 2>>, <<>>), NoArray),
    AlgebraicPart(<< <<VarB, VarB>> >>, Vector(<<1, 2, 3>>, <<>>), NoArray),
    AlgebraicPart(<< <<VarB, VarB>> >>, StateVector(Slice(1, 3), <<>>),
                  Array(<<3, 4, 5>>)),
    AlgebraicPart(<< <<VarB, VarB>> >>, StateVector(Slice(1, 3), <<>>), NoArray),
    AlgebraicPart(<< <<VarB, VarB>> >>, Scalar(4), Array(<<3>>)),
    AlgebraicPart(<< <<VarB, VarB>> >>, NoNode, NoArray) }

\* broadcasts of a number, of the time and of one entry of the state vector
BroadcastPool ==
  { BroadcastNode(Scalar(1), Neg), BroadcastNode(Scalar(2), Sep),
    BroadcastNode(Scalar(3), Pos),
    BroadcastNode(Time, Neg), BroadcastNode(Time, Sep),
    BroadcastNode(StateVector(Slice(0, 1), <<>>), Neg),
    BroadcastNode(StateVector(Slice(1, 2), <<>>), Sep),
    BroadcastNode(StateVector(Slice(2, 3), <<>>), Pos) }

\* variables as children of a concatenation, next to a broadcast
VariableChildPool ==
  {VarN, VarS, VarP, BroadcastNode(Scalar(2), Sep), BroadcastNode(Time, Pos)}

\* lists given to set_variable_slices before such a concatenation is discretised
CellVariableLists == { <<VarN, VarS, VarP>>, <<VarN>> }

\* children of concatenations built directly
ChildPool ==
  { [kind |-> "Symbol", name |-> "a", domain |-> Neg],
    [kind |-> "Symbol", name |-> "b", domain |-> Sep \o Pos],
    [kind |-> "Symbol", name |-> "c", domain |-> <<"test">>],
    [kind |-> "Symbol", name |-> "d", domain |-> Sep],
    [kind |-> "Symbol", name |-> "e", domain |-> <<>>],
    [kind |-> "Symbol", name |-> "f", domain |-> <<UnknownDomain>>] }
  \cup BroadcastPool

\* children of NumpyConcatenations built directly: constant vectors, state
\* vectors, a scalar and the time
NumpyChildPool ==
  { Vector(<<5, 6>>, <<>>), Vector(<<7>>, <<>>),
    StateVector(Slice(0, 2), <<>>), StateVector(Slice(2, 5), <<>>),
    Scalar(16), Time }

\* models whose boundary conditions put a value on the left, the right, both or
\* no side of the variable n
BoundaryInputs ==
  { <<>>,
    << <<VarN, << <<StrKey("left"), Scalar(0)>>, <<StrKey("right"), Scalar(1)>> >> >> >>,
    << <<VarN, << <<StrKey("left"), Scalar(0)>> >> >> >>,
    << <<VarN, << <<StrKey("right"), Scalar(1)>> >> >> >> }

BoundaryModel(boundary_conditions) ==
  BaseModel(<< <<VarN, VarN>>, <<VarS, VarS>> >>, <<>>,
            << <<VarN, Scalar(3)>>, <<VarS, Scalar(3)>> >>,
            boundary_conditions, <<>>, <<>>)

\* binary operators over variables, numbers, gradients and divergences
OperatorClasses == {"Multiplication", "Addition"}

BinaryOperands ==
  { VarN, VarS, Scalar(2), Gradient(VarN), Gradient(VarS), Divergence(Gradient(VarN)),
    BinaryOperator("Multiplication", Scalar(2), Gradient(VarN)).val }

BinaryPool ==
  { BinaryOperator(x[1], x[2], x[3]).val :
      x \in { z \in OperatorClasses \X BinaryOperands \X BinaryOperands :
                BinaryOperator(z[1], z[2], z[3]).err = "none" } }

\* dictionaries given to process_dict: variables with and without a domain and
\* strings as keys; a number, the time, a variable and a concatenation as values
DictKeys == {VarA, VarN, StrKey("a"), StrKey("left")}
DictEqns(key) ==
  {Scalar(3), Time, VarS, ConcatenationNode(<<VarN, VarS>>, Neg \o Sep), VarP}
DictInputs == DictsOver(DictKeys, DictEqns, MaxIc)

\* symbols given to process_symbol
SymbolPool ==
  { ConcatenationNode(<<VarN, VarS, VarP>>, Neg \o Sep \o Pos),
    ConcatenationNode(<<VarS, VarN>>, Neg \o Sep),
    ConcatenationNode(<<BroadcastNode(Scalar(1), Neg), BroadcastNode(Scalar(2), Sep),
                        BroadcastNode(Scalar(3), Pos)>>, Neg \o Sep \o Pos),
    ConcatenationNode(<<VarN, BroadcastNode(Scalar(2), Sep)>>, Neg \o Sep),
    ConcatenationNode(<<ConcatenationNode(<<VarN, VarS>>, Neg \o Sep), VarP>>,
                      Neg \o Sep \o Pos),
    BroadcastNode(Scalar(1), <<>>),
    BroadcastNode(Scalar(1), <<"test">>),
    Gradient(VarN), Gradient(VarX),
    [kind |-> "SpatialVariable", name |-> "x", domain |-> <<"test">>],
    VarA, VarN,
    Integral(VarN), IndefiniteIntegral(VarN), BoundaryValue(VarN, "left"),
    Function("abs", VarA), Function("negative", VarN), UnaryOperator("-", VarN), UnaryOperator("-", Gradient(VarX)),
    ConcatenationNode(
      <<BroadcastNode(Time, Neg),
        BroadcastNode(BinaryOperator("Multiplication", Scalar(2), Time).val, Sep),
        BroadcastNode(BinaryOperator("Multiplication", Scalar(3), Time).val, Pos)>>,
      Neg \o Sep \o Pos) }

\* children of DomainConcatenations built directly: state vectors and constant
\* vectors with one entry per mesh point of their domain (one of them over two
\* domains that are not adjacent in the global order), and a symbol without a
\* domain
DomainChildPool ==
  LET nN == DomainPoints("negative electrode")
      nS == DomainPoints("separator")
      nP == DomainPoints("positive electrode")
  IN  { StateVector(Slice(0, nN), Neg), StateVector(Slice(nN, nN + nS), Sep),
        StateVector(Slice(nN + nS, nN + nS + nP), Pos),
        StateVector(Slice(0, nS), Sep), StateVector(Slice(nS, nS + nN), Neg),
        Vector([i \in 1..nN |-> 1], Neg),
        Vector([i \in 1..(nN + nP) |-> IF i <= nN THEN 1 ELSE 3], Neg \o Pos),
        [kind |-> "Symbol", name |-> "e", domain |-> <<>>] }

\* state vectors and the time at which concatenations are evaluated
TestYs == { <<11, 12, 13, 14, 15, 16>>, <<21, 22, 23, 24, 25, 26>> }
TestT == 0
TestTs == {TestT, 2}
\* the (t, y) at which the integrator calls the callables: one starting point,
\* one with a later time and one with another state
SolverPoints ==
  {p \in TestTs \X TestYs : p[1] = TestT \/ p[2] = <<11, 12, 13, 14, 15, 16>>}

\* time derivatives handed to residuals
TestYdots == { <<0, 0, 0, 0, 0, 0>>, <<1, 2, 3, 4, 5, 6>> }

(***************************************************************************)
(* Specification                                                           *)
(***************************************************************************)
NoModel == BaseModel(<<>>, <<>>, <<>>, <<>>, <<>>, <<>>)

\* no solver callable has been called
NoCall == [fn |-> "none", t |-> 0, y |-> <<>>, ydot |-> <<>>, moved |-> FALSE]
\* nothing was returned yet
NoResult == [values |-> <<>>, out |-> [err |-> "none", num |-> FALSE, val |-> <<>>]]

\* a Discretisation just constructed, with nothing processed yet
ConstructedWith(registries) ==
  /\ registry \in registries
  /\ spatial_methods = DiscretisationMethods(mesh, registry)
  /\ y_slices = << >>
  /\ bcs = <<>>
  /\ op = "init"
  /\ err = "none"
  /\ step = "none"
  /\ info = NoInfo
  /\ arg_variables = <<>>
  /\ model0 = NoModel
  /\ model = NoModel
  /\ node_in = <<>>
  /\ node = NoNode
  /\ simp = NoNode
  /\ call = NoCall
  /\ known_evals = <<>>
  /\ result = NoResult

Constructed == ConstructedWith(RegistryChoices)

Init == mesh \in MeshChoices /\ Constructed

\* disc.set_variable_slices(variables), called on its own
SetVariableSlices ==
  /\ op = "init"
  /\ \E variables \in SeqsUpTo(ListEntries, MaxVars) :
       LET r == set_variable_slices(variables)
       IN  /\ op' = "set_variable_slices"
           /\ err' = r.err
           /\ arg_variables' = variables
           /\ y_slices' = IF r.err = "none" THEN r.val ELSE y_slices
  /\ UNCHANGED <<mesh, registry, spatial_methods, bcs, step, info, model0, model, node_in,
                 node, simp,
                 solver_vars>>

\* disc.process_model(m)
ProcessModel ==
  /\ op = "init"
  /\ \E rhs \in RhsInputs, algebraic \in AlgebraicInputs,
        initial_conditions \in InitialConditionInputs, x \in ExtrasInputs :
       LET m == BaseModel(rhs, algebraic, initial_conditions,
                          x.boundary_conditions, x.variables, x.events)
           r == process_model(m, y_slices, bcs)
       IN  /\ op' = "process_model"
           /\ err' = r.err
           /\ step' = r.step
           /\ info' = r.info
           /\ model0' = m
           /\ model' = r.model
           /\ y_slices' = r.slices
           /\ bcs' = r.bcs
  /\ UNCHANGED <<mesh, registry, spatial_methods, arg_variables, node_in, node, simp,
                 solver_vars>>

\* pybamm.Concatenation(*children)
NewConcatenation ==
  /\ op = "init"
  /\ \E children \in SeqsUpTo(ChildPool, MaxChildren) :
       LET r == Concatenation(children)
       IN  /\ op' = "Concatenation"
           /\ err' = r.err
           /\ node_in' = children
           /\ node' = r.val
  /\ UNCHANGED <<mesh, registry, spatial_methods, y_slices, bcs, step, info, arg_variables,
                 model0, model, simp,
                 solver_vars>>

\* the same list is given to set_variable_slices once more
RepeatSetVariableSlices ==
  /\ op = "set_variable_slices"
  /\ LET r == set_variable_slices(arg_variables)
     IN  /\ op' = "set_variable_slices again"
         /\ err' = r.err
         /\ y_slices' = IF r.err = "none" THEN r.val ELSE y_slices
  /\ UNCHANGED <<mesh, registry, spatial_methods, bcs, step, info, arg_variables, model0,
                 model, node_in, node, simp,
                 solver_vars>>

\* disc.process_symbol(symbol) once the slices are set
ProcessSymbol ==
  /\ op = "set_variable_slices"
  /\ err = "none"
  /\ \E symbol \in SymbolPool :
       LET r == process_symbol(symbol, y_slices, bcs)
       IN  /\ op' = "process_symbol"
           /\ err' = r.err
           /\ node_in' = symbol
           /\ node' = r.val
  /\ UNCHANGED <<mesh, registry, spatial_methods, y_slices, bcs, step, info, arg_variables,
                 model0, model, simp,
                 solver_vars>>

\* pybamm.NumpyConcatenation(*children)
NewNumpyConcatenation ==
  /\ op = "init"
  /\ \E children \in SeqsUpTo(NumpyChildPool, MaxChildren) :
       /\ op' = "NumpyConcatenation"
       /\ node_in' = children
       /\ node' = NumpyConcatenation(children)
  /\ UNCHANGED <<mesh, registry, spatial_methods, y_slices, bcs, err, step, info,
                 arg_variables, model0, model, simp,
                 solver_vars>>

\* a plain Python number handed to Broadcast
Number(v) == [kind |-> "Number", value |-> v]

\* Broadcast.__init__ lines 27-29: a number becomes a Scalar
AsSymbol(child) == IF child.kind = "Number" THEN Scalar(child.value) ELSE child

\* Broadcast.__init__ without the check of lines 31-40
BroadcastUnchecked(child, domain) == Ok(BroadcastNode(AsSymbol(child), domain))

\* Broadcast.__init__ (broadcasts.py lines 26-45)
Broadcast(child, domain) ==
  IF BroadcastDomainOk(AsSymbol(child), domain)
  THEN Ok(BroadcastNode(AsSymbol(child), domain))
  ELSE Fail("DomainError")

\* Broadcast._unary_simplify and Broadcast._unary_new_copy (lines 47-55)
unary_simplify(self, child) == Broadcast(child, self.domain)
unary_new_copy(self, child) == Broadcast(child, self.domain)

\* children and target domains of the Broadcasts that are built
BroadcastOperands ==
  { Number(2), Scalar(1), Time, StateVector(Slice(0, 1), <<>>), VarN,
    [kind |-> "Scalar", name |-> "scalar", domain |-> Sep, value |-> 2],
    [kind |-> "Symbol", name |-> "c", domain |-> <<"current collector">>] }

BroadcastDomains ==
  { <<>>, Neg, Sep, Neg \o Sep, <<"current collector">>, <<"test">> }

\* pybamm.Broadcast(child, domain)
NewBroadcast ==
  /\ op = "init"
  /\ \E child \in BroadcastOperands, domain \in BroadcastDomains :
       LET r == Broadcast(child, domain)
       IN  /\ op' = "Broadcast"
           /\ err' = r.err
           /\ node_in' = [child |-> child, domain |-> domain]
           /\ node' = r.val
  /\ UNCHANGED <<mesh, registry, spatial_methods, y_slices, bcs, step, info,
                 arg_variables, model0, model, simp,
                 solver_vars>>

\* broadcast._unary_simplify(child) with the simplified child
BroadcastSimplify ==
  /\ op = "Broadcast"
  /\ err = "none"
  /\ LET r == unary_simplify(node, Simplify(node.children[1]))
     IN  /\ op' = "_unary_simplify"
         /\ err' = r.err
         /\ simp' = r.val
  /\ UNCHANGED <<mesh, registry, spatial_methods, y_slices, bcs, step, info,
                 arg_variables, model0, model, node_in, node,
                 solver_vars>>

\* broadcast._unary_new_copy(child) with the child
BroadcastNewCopy ==
  /\ op = "Broadcast"
  /\ err = "none"
  /\ LET r == unary_new_copy(node, node.children[1])
     IN  /\ op' = "_unary_new_copy"
         /\ err' = r.err
         /\ simp' = r.val
  /\ UNCHANGED <<mesh, registry, spatial_methods, y_slices, bcs, step, info,
                 arg_variables, model0, model, node_in, node,
                 solver_vars>>

\* disc.process_symbol(broadcast) on a Broadcast that was built
ProcessBroadcast ==
  /\ op = "Broadcast"
  /\ err = "none"
  /\ LET r == process_symbol(node, y_slices, bcs)
     IN  /\ op' = "process_symbol"
         /\ err' = r.err
         /\ simp' = r.val
  /\ UNCHANGED <<mesh, registry, spatial_methods, y_slices, bcs, step, info,
                 arg_variables, model0, model, node_in, node,
                 solver_vars>>

\* disc.process_model(m) on a model with boundary conditions
ProcessBoundaryModel ==
  /\ op = "init"
  /\ \E boundary_conditions \in BoundaryInputs :
       LET m == BoundaryModel(boundary_conditions)
           r == process_model(m, y_slices, bcs)
       IN  /\ op' = "process_model"
           /\ err' = r.err
           /\ step' = r.step
           /\ info' = r.info
           /\ model0' = m
           /\ model' = r.model
           /\ y_slices' = r.slices
           /\ bcs' = r.bcs
  /\ UNCHANGED <<mesh, registry, spatial_methods, arg_variables, node_in, node, simp,
                 solver_vars>>

\* disc.process_symbol(bin_op) once a model has been processed
ProcessBinaryOperator ==
  /\ op = "process_model"
  /\ err = "none"
  /\ \E bin_op \in BinaryPool :
       LET r == process_symbol(bin_op, y_slices, bcs)
       IN  /\ op' = "process_binary_operators"
           /\ err' = r.err
           /\ node_in' = bin_op
           /\ node' = r.val
  /\ UNCHANGED <<mesh, registry, spatial_methods, y_slices, bcs, step, info,
                 arg_variables, model0, model, simp,
                 solver_vars>>

\* disc.process_symbol(variable), before or after set_variable_slices
ProcessVariable ==
  /\ op \in {"init", "set_variable_slices"}
  /\ \E symbol \in VarPool :
       LET r == process_symbol(symbol, y_slices, bcs)
       IN  /\ op' = "process_symbol"
           /\ err' = r.err
           /\ node_in' = symbol
           /\ node' = r.val
  /\ UNCHANGED <<mesh, registry, spatial_methods, y_slices, bcs, step, info,
                 arg_variables, model0, model, simp,
                 solver_vars>>

\* disc.process_dict(var_eqn_dict) once a model has been processed
ProcessDict ==
  /\ op = "process_model"
  /\ err = "none"
  /\ \E var_eqn_dict \in DictInputs :
       LET r == process_dict(var_eqn_dict, y_slices, bcs)
       IN  /\ op' = "process_dict"
           /\ err' = r.err
           /\ node_in' = var_eqn_dict
           /\ node' = r.val
  /\ UNCHANGED <<mesh, registry, spatial_methods, y_slices, bcs, step, info,
                 arg_variables, model0, model, simp,
                 solver_vars>>

\* disc.process_symbol(symbol) on a Discretisation that has no slices yet
ProcessFirstSymbol ==
  /\ op = "init"
  /\ \E symbol \in SymbolPool :
       LET r == process_symbol(symbol, y_slices, bcs)
       IN  /\ op' = "process_symbol"
           /\ err' = r.err
           /\ node_in' = symbol
           /\ node' = r.val
  /\ UNCHANGED <<mesh, registry, spatial_methods, y_slices, bcs, step, info,
                 arg_variables, model0, model, simp,
                 solver_vars>>

\* pybamm.DomainConcatenation(children, mesh)
NewDomainConcatenation ==
  /\ op = "init"
  /\ \E children \in SeqsUpTo(DomainChildPool, MaxChildren) :
       LET r == DomainConcatenation(children)
       IN  /\ op' = "DomainConcatenation"
           /\ err' = r.err
           /\ node_in' = children
           /\ node' = r.val
  /\ UNCHANGED <<mesh, registry, spatial_methods, y_slices, bcs, step, info, arg_variables,
                 model0, model, simp,
                 solver_vars>>

\* node.simplify() on a concatenation that was built or discretised
SimplifyNode ==
  /\ op \in {"process_symbol", "DomainConcatenation"}
  /\ err = "none"
  /\ node.kind \in {"DomainConcatenation", "NumpyConcatenation"}
  /\ op' = "simplify"
  /\ simp' = Simplify(node)
  /\ UNCHANGED <<mesh, registry, spatial_methods, y_slices, bcs, err, step, info,
                 arg_variables, model0, model, node_in, node,
                 solver_vars>>

\* simplify() called on the node that simplify() returned
SimplifyAgain ==
  /\ op = "simplify"
  /\ op' = "simplify again"
  /\ node' = simp
  /\ simp' = Simplify(simp)
  /\ UNCHANGED <<mesh, registry, spatial_methods, y_slices, bcs, err, step, info,
                 arg_variables, model0, model, node_in,
                 solver_vars>>

\* model.concatenated_rhs.simplify(), as the solvers do (dae_solver.py line 38)
SimplifyConcatenatedRhs ==
  /\ op = "process_model"
  /\ err = "none"
  /\ op' = "simplify"
  /\ node' = model.concatenated_rhs
  /\ simp' = Simplify(model.concatenated_rhs)
  /\ UNCHANGED <<mesh, registry, spatial_methods, y_slices, bcs, err, step, info,
                 arg_variables, model0, model, node_in,
                 solver_vars>>

\* disc.process_symbol(conc) on a concatenation that was built
ProcessConcatenation ==
  /\ op = "Concatenation"
  /\ err = "none"
  /\ LET r == process_symbol(node, y_slices, bcs)
     IN  /\ op' = "process_symbol"
         /\ err' = r.err
         /\ node_in' = node
         /\ node' = r.val
  /\ UNCHANGED <<mesh, registry, spatial_methods, y_slices, bcs, step, info, arg_variables,
                 model0, model, simp, solver_vars>>

\* disc.set_variable_slices(variables) for the variables of a cell, or for the
\* first of them only
SetCellSlices ==
  /\ op = "init"
  /\ \E variables \in CellVariableLists :
       LET r == set_variable_slices(variables)
       IN  /\ op' = "set_variable_slices"
           /\ err' = r.err
           /\ arg_variables' = variables
           /\ y_slices' = IF r.err = "none" THEN r.val ELSE y_slices
  /\ UNCHANGED <<mesh, registry, spatial_methods, bcs, step, info, model0, model,
                 node_in, node, simp, solver_vars>>

\* pybamm.Concatenation(*children) of variables and broadcasts, before or after
\* the slices were set
NewVariableConcatenation ==
  /\ op \in {"init", "set_variable_slices"}
  /\ \E children \in SeqsUpTo(VariableChildPool, MaxChildren) :
       LET r == Concatenation(children)
       IN  /\ op' = "Concatenation"
           /\ err' = r.err
           /\ node_in' = children
           /\ node' = r.val
  /\ UNCHANGED <<mesh, registry, spatial_methods, y_slices, bcs, step, info,
                 arg_variables, model0, model, simp, solver_vars>>

\* disc.process_model(m) on a model with algebraic equations
ProcessDaeModel ==
  /\ op = "init"
  /\ \E rhs \in DaeRhsInputs, algebraic \in DaeAlgebraicInputs,
        initial_conditions \in DaeInitialConditionInputs :
       LET m == BaseModel(rhs, algebraic, initial_conditions, <<>>, <<>>, <<>>)
           r == process_model(m, y_slices, bcs)
       IN  /\ op' = "process_model"
           /\ err' = r.err
           /\ step' = r.step
           /\ info' = r.info
           /\ model0' = m
           /\ model' = r.model
           /\ y_slices' = r.slices
           /\ bcs' = r.bcs
  /\ UNCHANGED <<mesh, registry, spatial_methods, arg_variables, node_in, node, simp,
                 solver_vars>>

\* disc.process_model(m) on a model whose initial conditions may be keyed by
\* other symbols than its rhs
ProcessInitialConditionsModel ==
  /\ op = "init"
  /\ \E rhs \in IcRhsInputs, initial_conditions \in IcInitialConditionInputs :
       LET m == BaseModel(rhs, <<>>, initial_conditions, <<>>, <<>>, <<>>)
           r == process_model(m, y_slices, bcs)
       IN  /\ op' = "process_model"
           /\ err' = r.err
           /\ step' = r.step
           /\ info' = r.info
           /\ model0' = m
           /\ model' = r.model
           /\ y_slices' = r.slices
           /\ bcs' = r.bcs
  /\ UNCHANGED <<mesh, registry, spatial_methods, arg_variables, node_in, node, simp,
                 solver_vars>>

\* disc.set_variable_slices(list(model.rhs.keys())) for the models of
\* ProcessInitialConditionsModel
SetKeySlices ==
  /\ op = "init"
  /\ \E rhs \in IcRhsInputs :
       LET r == set_variable_slices(Keys(rhs))
       IN  /\ op' = "set_variable_slices"
           /\ err' = r.err
           /\ arg_variables' = Keys(rhs)
           /\ y_slices' = IF r.err = "none" THEN r.val ELSE y_slices
  /\ UNCHANGED <<mesh, registry, spatial_methods, bcs, step, info, model0, model,
                 node_in, node, simp, solver_vars>>

\* the rhs {key: key} of the variables whose slices were set
RhsOfSlices == [i \in 1..Len(arg_variables) |-> <<arg_variables[i], arg_variables[i]>>]

\* disc.process_initial_conditions(m), called on its own after
\* set_variable_slices
ProcessInitialConditions ==
  /\ op = "set_variable_slices"
  /\ err = "none"
  /\ \E initial_conditions \in IcInitialConditionInputs :
       LET m == BaseModel(RhsOfSlices, <<>>, initial_conditions, <<>>, <<>>, <<>>)
           r == process_initial_conditions(m, y_slices, bcs)
       IN  /\ op' = "process_initial_conditions"
           /\ err' = r.err
           /\ step' = r.step
           /\ info' = r.info
           /\ model0' = m
           /\ model' = r.model
  /\ UNCHANGED <<mesh, registry, spatial_methods, y_slices, bcs, arg_variables,
                 node_in, node, simp, solver_vars>>

\* disc.process_rhs_and_algebraic(m), called on its own after
\* set_variable_slices
ProcessRhsAndAlgebraic ==
  /\ op = "set_variable_slices"
  /\ err = "none"
  /\ \E rhs \in IcRhsInputs, algebraic \in {<<>>, << <<VarX, VarX>> >>} :
       LET m == BaseModel(rhs, algebraic, <<>>, <<>>, <<>>, <<>>)
           r == process_rhs_and_algebraic(m, y_slices, bcs)
       IN  /\ op' = "process_rhs_and_algebraic"
           /\ err' = r.err
           /\ step' = r.step
           /\ info' = r.info
           /\ model0' = m
           /\ model' = r.model
  /\ UNCHANGED <<mesh, registry, spatial_methods, y_slices, bcs, arg_variables,
                 node_in, node, simp, solver_vars>>

\* disc.process_model(m) on a model with an initial condition for every key
ProcessMassModel ==
  /\ op = "init"
  /\ \E rhs \in DaeRhsInputs, algebraic \in DaeAlgebraicInputs,
        x \in {NoExtras, SomeExtras} :
       LET m == BaseModel(rhs, algebraic, CompleteInitialConditions(rhs, algebraic),
                          x.boundary_conditions, x.variables, x.events)
           r == process_model(m, y_slices, bcs)
       IN  /\ op' = "process_model"
           /\ err' = r.err
           /\ step' = r.step
           /\ info' = r.info
           /\ model0' = m
           /\ model' = r.model
           /\ y_slices' = r.slices
           /\ bcs' = r.bcs
  /\ UNCHANGED <<mesh, registry, spatial_methods, arg_variables, node_in, node, simp,
                 solver_vars>>

\* the model after create_mass_matrix: model.mass_matrix is set by the last
\* statement (line 203), so an exception leaves the model as it was
WithMassMatrix(m, mm) ==
  IF mm.err # "none" THEN m
  ELSE [m EXCEPT !.mass_matrix = mm.val, !.has_mass_matrix = TRUE]

\* disc.create_mass_matrix(m), called on its own on a model made by hand
CreateMassMatrix ==
  /\ op = "init"
  /\ \E rhs \in MassRhsInputs, part \in AlgebraicParts :
       LET m == [BaseModel(rhs, part.algebraic, <<>>, <<>>, <<>>, <<>>) EXCEPT
                   !.concatenated_algebraic = part.concatenated_algebraic,
                   !.concatenated_initial_conditions =
                      part.concatenated_initial_conditions]
           r == create_mass_matrix(m, bcs)
       IN  /\ op' = "create_mass_matrix"
           /\ err' = r.err
           /\ model0' = m
           /\ model' = WithMassMatrix(m, r)
  /\ UNCHANGED <<mesh, registry, spatial_methods, y_slices, bcs, step, info,
                 arg_variables, node_in, node, simp, solver_vars>>

\* a cache that is kept from one call of a callable to the next
CarriedCache(previous) == previous

\* the cache a solver callable hands to evaluate, given the cache the call
\* before left: the literal {} of dae_solver.py lines 43, 51, 54 and
\* ode_solver.py line 40
InitialCache(previous) == <<>>

\* concatenated_rhs and concatenated_algebraic as solve() simplifies them
\* (dae_solver.py lines 38-39, ode_solver.py line 36)
SolverRhs == Simplify(model.concatenated_rhs)
SolverAlgebraic == Simplify(model.concatenated_algebraic)

\* the callables exist once solve() was given a discretised model
Solving == op = "process_model" /\ err = "none"

\* a call as it is remembered: its arguments, and whether the call before it
\* was made at another (t, y)
AsCall(fn, t, y, ydot, previous) ==
  [fn |-> fn, t |-> t, y |-> y, ydot |-> ydot,
   moved |-> previous.fn # "none" /\ (previous.t # t \/ previous.y # y)]

\* what a callable hands back: the value returned, the results of the
\* evaluations it made and the cache as it is left
CallResult(evals, values, out) == [known_evals |-> evals, values |-> values, out |-> out]

\* a[:n]
Prefix(a, n) == SubSeq(a, 1, Min(n, Len(a)))

\* a - b of two numpy vectors: equal lengths, or one of them of length one
Subtract(a, b) ==
  IF Len(a) = Len(b) THEN Arr([i \in 1..Len(a) |-> a[i] - b[i]])
  ELSE IF Len(b) = 1 THEN Arr([i \in 1..Len(a) |-> a[i] - b[1]])
  ELSE IF Len(a) = 1 THEN Arr([i \in 1..Len(b) |-> a[1] - b[i]])
  ELSE Raise("ValueError")

\* np.concatenate((d, concat_evals)) of line 48: a number is zero-dimensional
\* and cannot be concatenated
ConcatenateResiduals(d, concat_evals) ==
  IF d.err # "none" THEN d
  ELSE IF concat_evals.num THEN Raise("ValueError")
  ELSE Arr(d.val \o concat_evals.val)

\* rhs_eval - ydot[:rhs_eval.shape[0]] of line 48: a number has no shape
ResidualsDifference(rhs_eval, ydot) ==
  IF rhs_eval.num THEN Raise("AttributeError")
  ELSE Subtract(rhs_eval.val, Prefix(ydot, Len(rhs_eval.val)))

\* residuals, line 48: rhs_eval - ydot[:rhs_eval.shape[0]], then concat_evals
ResidualsReturn(rhs_eval, a, ydot) ==
  IF a.res.err # "none" THEN CallResult(a.known_evals, <<rhs_eval, a.res>>, a.res)
  ELSE CallResult(a.known_evals, <<rhs_eval, a.res>>,
                  ConcatenateResiduals(ResidualsDifference(rhs_eval, ydot), a.res))

\* residuals, lines 43-47: the algebraic part is evaluated with the cache the
\* rhs part returned
ResidualsAlgebraic(t, y, ydot, r) ==
  IF r.res.err # "none" THEN CallResult(r.known_evals, <<r.res>>, r.res)
  ELSE ResidualsReturn(r.res,
                       EvaluateCached(SolverAlgebraic, t, SomeY(y), r.known_evals),
                       ydot)

\* expr.evaluate(t, y, known_evals=evals)[0]
EvaluateFirst(e) == CallResult(e.known_evals, <<e.res>>, e.res)

\* the expression a callable of DaeSolver.solve evaluates first
FirstExpression(fn) == IF fn = "algebraic" THEN SolverAlgebraic ELSE SolverRhs

\* what a callable of DaeSolver.solve does with its first evaluation
AfterFirst(fn, t, y, ydot, r) ==
  IF fn = "residuals" THEN ResidualsAlgebraic(t, y, ydot, r) ELSE EvaluateFirst(r)

\* residuals(t, y, ydot), rhs(t, y) and algebraic(t, y) of DaeSolver.solve
\* (dae_solver.py lines 42-54), called with the cache `evals`
dae_callable(fn, t, y, ydot, evals) ==
  CHOOSE returned \in
    {AfterFirst(fn, t, y, ydot, r) :
       r \in {EvaluateCached(FirstExpression(fn), t, SomeY(y), evals)}} : TRUE

\* dydt(t, y) of OdeSolver.solve (ode_solver.py lines 39-40)
dydt(t, y, evals) == EvaluateFirst(EvaluateCached(SolverRhs, t, SomeY(y), evals))

\* a call of a callable: the call, the cache and what it returned are kept
Returned(fn, t, y, ydot, e) ==
  /\ call' = AsCall(fn, t, y, ydot, call)
  /\ known_evals' = e.known_evals
  /\ result' = [values |-> e.values, out |-> e.out]

\* residuals(t, y, ydot), dae_solver.py lines 42-48
Residuals ==
  /\ Solving
  /\ \E p \in SolverPoints, ydot \in TestYdots :
       \E e \in {dae_callable("residuals", p[1], p[2], ydot,
                               InitialCache(known_evals))} :
          Returned("residuals", p[1], p[2], ydot, e)
  /\ UNCHANGED <<mesh, registry, spatial_methods, y_slices, bcs, op, err, step, info,
                 arg_variables, model0, model, node_in, node, simp>>

\* rhs(t, y), dae_solver.py lines 50-51
Rhs ==
  /\ Solving
  /\ \E p \in SolverPoints :
       \E e \in {dae_callable("rhs", p[1], p[2], <<>>, InitialCache(known_evals))} :
          Returned("rhs", p[1], p[2], <<>>, e)
  /\ UNCHANGED <<mesh, registry, spatial_methods, y_slices, bcs, op, err, step, info,
                 arg_variables, model0, model, node_in, node, simp>>

\* algebraic(t, y), dae_solver.py lines 53-54
Algebraic ==
  /\ Solving
  /\ \E p \in SolverPoints :
       \E e \in {dae_callable("algebraic", p[1], p[2], <<>>, InitialCache(known_evals))} :
          Returned("algebraic", p[1], p[2], <<>>, e)
  /\ UNCHANGED <<mesh, registry, spatial_methods, y_slices, bcs, op, err, step, info,
                 arg_variables, model0, model, node_in, node, simp>>

\* dydt(t, y), ode_solver.py lines 39-40
Dydt ==
  /\ Solving
  /\ \E p \in SolverPoints :
       \E e \in {dydt(p[1], p[2], InitialCache(known_evals))} :
          Returned("dydt", p[1], p[2], <<>>, e)
  /\ UNCHANGED <<mesh, registry, spatial_methods, y_slices, bcs, op, err, step, info,
                 arg_variables, model0, model, node_in, node, simp>>

Next ==
  \/ SetVariableSlices
  \/ RepeatSetVariableSlices
  \/ ProcessModel
  \/ NewConcatenation
  \/ ProcessSymbol
  \/ NewDomainConcatenation
  \/ SimplifyNode
  \/ SimplifyConcatenatedRhs
  \/ SimplifyAgain

Spec == Init /\ [][Next]_vars

\* the slice assignment on its own
SlicesNext == SetVariableSlices \/ RepeatSetVariableSlices
SlicesSpec == Init /\ [][SlicesNext]_vars

\* the discretisation of whole models
ModelNext == ProcessModel \/ SimplifyConcatenatedRhs
\* a Discretisation built on the mesh whose negative electrode is made of two
\* submeshes: the only mesh domain in the models of ProcessModel is the negative
\* electrode, which has two points in either mesh of MeshChoices
ModelInit == mesh = MeshTwoSubmeshes /\ Constructed
ModelSpec == ModelInit /\ [][ModelNext]_vars

\* the construction and simplification of concatenations
ConcatenationNext == NewConcatenation \/ NewDomainConcatenation \/ SimplifyNode
ConcatenationSpec == Init /\ [][ConcatenationNext]_vars

\* Discretisations built from every registry of RegistryInputs
RegistryInit == mesh \in MeshChoices /\ ConstructedWith(RegistryInputs)

RegistrySpec == RegistryInit /\ [][ProcessFirstSymbol]_vars

\* the discretisation of binary operators after a model with boundary conditions
BinaryOperatorNext == ProcessBoundaryModel \/ ProcessBinaryOperator
BinaryOperatorSpec == Init /\ [][BinaryOperatorNext]_vars

\* the discretisation of variables
VariableNext == SetVariableSlices \/ ProcessVariable
VariableSpec == Init /\ [][VariableNext]_vars

\* the discretisation of dictionaries
DictNext == ProcessBoundaryModel \/ ProcessDict
DictSpec == Init /\ [][DictNext]_vars

\* the construction, copying and discretisation of broadcasts
BroadcastNext ==
  NewBroadcast \/ BroadcastSimplify \/ BroadcastNewCopy \/ ProcessBroadcast
BroadcastSpec == Init /\ [][BroadcastNext]_vars

\* set_variable_slices on every mesh that keeps the mesh contract
ContractInit == mesh \in MeshContractChoices /\ Constructed
ContractSpec == ContractInit /\ [][SetVariableSlices]_vars

\* the construction of numpy concatenations
NumpyConcatenationSpec == Init /\ [][NewNumpyConcatenation]_vars

\* the discretisation of concatenations, also on the mesh of the unit tests
ScenarioInit == mesh \in MeshChoices \cup {MeshScenarioB} /\ Constructed
ProcessSymbolNext ==
  \/ NewConcatenation
  \/ SetCellSlices
  \/ NewVariableConcatenation
  \/ ProcessConcatenation
ProcessSymbolSpec == ScenarioInit /\ [][ProcessSymbolNext]_vars

\* the discretisation of models with algebraic equations and the callables
\* the solvers build on them
\* process_model on models whose initial conditions have other keys than the
\* rhs, and process_initial_conditions and process_rhs_and_algebraic called on
\* their own once the slices are set
InitialConditionsNext ==
  \/ ProcessInitialConditionsModel
  \/ SetKeySlices
  \/ ProcessInitialConditions
  \/ ProcessRhsAndAlgebraic
InitialConditionsSpec == Init /\ [][InitialConditionsNext]_vars

\* create_mass_matrix inside process_model and on its own
MassMatrixInit == mesh \in MeshChoices /\ ConstructedWith(MassRegistries)
MassMatrixNext == ProcessMassModel \/ CreateMassMatrix
MassMatrixSpec == MassMatrixInit /\ [][MassMatrixNext]_vars

SolverNext == ProcessDaeModel \/ Residuals \/ Rhs \/ Algebraic \/ Dydt
SolverSpec == Init /\ [][SolverNext]_vars

(***************************************************************************)
(* Properties of set_variable_slices                                       *)
(***************************************************************************)
\* the unpacked variables of the list last given to set_variable_slices
Unpacked == UnpackVariables(arg_variables)

SlicesWereSet == op = "set_variable_slices" /\ err = "none"

\* the size the specification gives to a variable: 1 without a domain, else
\* the npts_for_broadcast of every submesh of every domain of its list
SlotsOf(v) ==
  IF v.domain = <<>> THEN 1
  ELSE LET cells == {<<i, j>> \in (1..Len(v.domain)) \X (1..2) :
                       j <= Len(mesh[v.domain[i]])}
           RECURSIVE Total(_)
           Total(S) == IF S = {} THEN 0
                       ELSE LET c == CHOOSE x \in S : TRUE
                            IN  mesh[v.domain[c[1]]][c[2]].npts_for_broadcast
                                + Total(S \ {c})
       IN  Total(cells)

\* sum of the sizes of the first k unpacked variables
RECURSIVE SlotsBefore(_)
SlotsBefore(k) == IF k = 0 THEN 0 ELSE SlotsBefore(k - 1) + SlotsOf(Unpacked[k])

\* the indices covered by the slices of the map
Covered == UNION {Indices(y_slices[id]) : id \in DOMAIN y_slices}

NonOverlapping ==
  \A id1, id2 \in DOMAIN y_slices :
     id1 # id2 => Indices(y_slices[id1]) \cap Indices(y_slices[id2]) = {}

\* C1: after set_variable_slices on any list (concatenations unpacked, entries
\* not assumed distinct) the slices of the map do not overlap and their union
\* is [0, N), N the sum of the sizes of all the unpacked variables of the list.
C1_AnyList ==
  SlicesWereSet =>
    /\ NonOverlapping
    /\ Covered = 0..(SlotsBefore(Len(Unpacked)) - 1)

\* a, b, c without domains get [0,1), [1,2), [2,3)
ScenarioA ==
  (SlicesWereSet /\ arg_variables = <<VarA, VarB, VarC>>) =>
    /\ y_slices[SymbolId(VarA)] = Slice(0, 1)
    /\ y_slices[SymbolId(VarB)] = Slice(1, 2)
    /\ y_slices[SymbolId(VarC)] = Slice(2, 3)

\* C2 as stated, for any list: after set_variable_slices the map has the
\* unpacked variables of the list as keys; the slice of the first unpacked
\* variable starts at 0, the slice of each later one starts where the slice of
\* the one before it stops, and every slice has the size of its variable (1
\* without a domain, else the npts_for_broadcast of all submeshes of all its
\* domains); a, b, c without domains get [0,1), [1,2), [2,3).
C2_CursorAtEveryPosition ==
  (op \in {"set_variable_slices", "set_variable_slices again"} /\ err = "none") =>
    /\ DOMAIN y_slices = {SymbolId(Unpacked[i]) : i \in 1..Len(Unpacked)}
    /\ Len(Unpacked) > 0 => y_slices[SymbolId(Unpacked[1])].start = 0
    /\ \A i \in 2..Len(Unpacked) :
         y_slices[SymbolId(Unpacked[i])].start
           = y_slices[SymbolId(Unpacked[i - 1])].stop
    /\ \A i \in 1..Len(Unpacked) :
         y_slices[SymbolId(Unpacked[i])].stop - y_slices[SymbolId(Unpacked[i])].start
           = SlotsOf(Unpacked[i])
    /\ ScenarioA

(***************************************************************************)
(* Properties of process_model                                             *)
(***************************************************************************)
Succeeded == op = "process_model" /\ err = "none"

\* y0, the concatenated initial conditions of the processed model
Y0 == model.concatenated_initial_conditions.val

\* the stop of the last slice of the map, 0 for an empty map
TotalStateSize ==
  IF DOMAIN y_slices = {} THEN 0
  ELSE LET id == CHOOSE x \in DOMAIN y_slices :
                   \A z \in DOMAIN y_slices : y_slices[z].stop <= y_slices[x].stop
       IN  y_slices[id].stop

\* C3: after a successful process_model, the evaluated concatenated rhs and
\* concatenated algebraic vectors have together the length of y0, and that
\* length is the total state size, the stop of the last slice of the map.
C3_StateSizes ==
  Succeeded =>
    LET r == Evaluate(model.concatenated_rhs, TestT, SomeY(Y0))
        a == Evaluate(model.concatenated_algebraic, TestT, SomeY(Y0))
    IN  /\ r.err = "none"
        /\ a.err = "none"
        /\ Len(r.val) + Len(a.val) = Len(Y0)
        /\ Len(Y0) = TotalStateSize

\* the ids of the unpacked keys of the initial conditions given to process_model
InitialConditionIds ==
  LET keys == UnpackVariables(Keys(model0.initial_conditions))
  IN  {SymbolId(keys[i]) : i \in 1..Len(keys)}

\* process_initial_conditions was called, by process_model or on its own
ReachedInitialConditions ==
  \/ op = "process_model" /\ step \notin {"slices", "boundary_conditions"}
  \/ op = "process_initial_conditions"

\* the names of the variables the initial conditions were supplied for
SuppliedNames ==
  {UnpackVariables(Keys(model0.initial_conditions))[i].name :
     i \in 1..Len(UnpackVariables(Keys(model0.initial_conditions)))}

\* C4 as stated: when the ids of the unpacked initial-condition keys differ
\* from the keys of the slice map, process_initial_conditions raises ModelError
\* naming exactly the variables the initial conditions were supplied for, and
\* concatenated_initial_conditions stays unset; when the two sets are equal no
\* ModelError is raised.
C4_NamesSuppliedVariables ==
  ReachedInitialConditions =>
    IF InitialConditionIds # DOMAIN y_slices
    THEN /\ err = "ModelError"
         /\ step = "initial_conditions"
         /\ info.carries = "ModelError"
         /\ Range(info.names) = SuppliedNames
         /\ ~model.concatenated_initial_conditions.set
    ELSE err # "ModelError"

ModelFields ==
  {"rhs", "algebraic", "initial_conditions", "boundary_conditions", "variables",
   "events"}

\* C5: when process_model raises, at whatever step, none of the fields rhs,
\* algebraic, initial_conditions, boundary_conditions, variables and events of
\* the model has been replaced: each is as it was before the call.
C5_ModelUntouchedOnError ==
  (op = "process_model" /\ err # "none") =>
    \A f \in ModelFields : model[f] = model0[f]

\* some rhs variable whose processed right-hand side at (0, y0) and processed
\* initial condition at (0, None) evaluate to different shapes
RhsShapeMismatch ==
  \E i \in 1..Len(model.rhs) :
     LET k == Lookup(model.initial_conditions, model.rhs[i][1])
     IN  /\ k # 0
         /\ LET r == Evaluate(model.rhs[i][2], TestT, SomeY(Y0))
                c == Evaluate(model.initial_conditions[k][2], TestT, NoY)
            IN  r.err = "none" /\ c.err = "none" /\ Len(r.val) # Len(c.val)

ConcatenatedMismatch ==
  LET r == Evaluate(model.concatenated_rhs, TestT, SomeY(Y0))
      a == Evaluate(model.concatenated_algebraic, TestT, SomeY(Y0))
  IN  r.err = "none" /\ a.err = "none" /\ Len(r.val) + Len(a.val) # Len(Y0)

\* C6: when check_model, the last step of process_model, finds a rhs variable
\* whose right-hand side and initial condition have different shapes, or
\* concatenated lengths that do not add up to the length of y0, it raises
\* ModelError, which carries the shapes.
C6_ShapeMismatchRaisesModelError ==
  (op = "process_model" /\ step = "check"
     /\ (RhsShapeMismatch \/ ConcatenatedMismatch)) =>
    /\ err = "ModelError"
    /\ info.shapes # <<>>

(***************************************************************************)
(* Properties of domains                                                   *)
(***************************************************************************)
\* C7: a domain name unknown to the system surfaces as DomainError and as no
\* other exception: (a) Concatenation of a child with a domain outside
\* KNOWN_DOMAINS, (b) set_variable_slices on a variable with a domain without
\* spatial method or mesh entry, (c) process_symbol on a gradient, broadcast or
\* spatial variable whose (child's) first domain has no spatial method.
C7_UnknownDomainIsDomainError ==
  /\ (op = "Concatenation"
        /\ \E i \in 1..Len(node_in) :
              \E d \in Range(node_in[i].domain) : d \notin Range(KNOWN_DOMAINS))
       => err = "DomainError"
  /\ (op = "set_variable_slices"
        /\ \E i \in 1..Len(Unpacked) :
              \E d \in Range(Unpacked[i].domain) : ~DomainHasMethod(d))
       => err = "DomainError"
  /\ (op = "process_symbol"
        /\ \/ /\ node_in.kind = "Gradient"
              /\ node_in.children[1].domain # <<>>
              /\ node_in.children[1].domain[1] \notin DOMAIN spatial_methods
           \/ /\ node_in.kind \in {"Broadcast", "SpatialVariable"}
              /\ node_in.domain # <<>>
              /\ node_in.domain[1] \notin DOMAIN spatial_methods)
       => err = "DomainError"

\* no domain name belongs to two of the children
PairwiseDisjoint(children) ==
  \A i, j \in 1..Len(children) :
     i < j => Range(children[i].domain) \cap Range(children[j].domain) = {}

AllKnown(children) ==
  \A i \in 1..Len(children) : Range(children[i].domain) \subseteq Range(KNOWN_DOMAINS)

\* C8: Concatenation of children whose domains are not pairwise disjoint raises
\* DomainError and yields no node; of children whose domains are pairwise
\* disjoint and all known, it yields the concatenation of these children.
C8_DisjointChildren ==
  op = "Concatenation" =>
    /\ ~PairwiseDisjoint(node_in) => (err = "DomainError" /\ node = NoNode)
    /\ (PairwiseDisjoint(node_in) /\ AllKnown(node_in)) =>
         (err = "none" /\ node.kind = "Concatenation" /\ node.children = node_in)

\* three children were refused although each is disjoint from its neighbour
C8_Witness ==
  /\ op = "Concatenation"
  /\ err = "DomainError"
  /\ Len(node_in) = 3
  /\ PairwiseDisjoint(SubSeq(node_in, 1, 2))
  /\ PairwiseDisjoint(SubSeq(node_in, 2, 3))

(***************************************************************************)
(* Properties of simplify                                                  *)
(***************************************************************************)
\* C9: for a concatenation node (NumpyConcatenation or DomainConcatenation) and
\* every state vector y on which it evaluates, node.simplify() evaluates at
\* (t, y) to what node evaluates to, in whatever order the children were given.
C9_SimplifyPreservesEvaluation ==
  (op = "simplify") =>
    \A y \in TestYs :
       Evaluate(node, TestT, SomeY(y)).err = "none" =>
         Evaluate(simp, TestT, SomeY(y)) = Evaluate(node, TestT, SomeY(y))

\* C10: for a DomainConcatenation node, node.simplify() has the domain of node,
\* both when it collapses to one StateVector and when it is rebuilt.
C10_SimplifyPreservesDomain ==
  (op = "simplify" /\ node.kind = "DomainConcatenation") =>
    simp.domain = node.domain

(***************************************************************************)
(* Properties of DomainConcatenation                                       *)
(***************************************************************************)
Built == op = "DomainConcatenation" /\ err = "none"

\* the evaluations of the children of the node at (TestT, y)
ChildrenEval(n, y) ==
  [i \in 1..Len(n.children) |-> Evaluate(n.children[i], TestT, SomeY(y))]

ChildrenEvaluate(n, y) ==
  \A i \in 1..Len(n.children) : ChildrenEval(n, y)[i].err = "none"

\* the per-domain slices of the output, in the order of the child's domains
SplitBack(output, slices, child_doms) ==
  Flatten([k \in 1..Len(child_doms) |-> PySlice(output, slices[child_doms[k]])])

\* the orders in which the children of the node can be supplied
ChildOrders(children) ==
  {p \in [1..Len(children) -> 1..Len(children)] :
     \A i, j \in 1..Len(children) : i # j => p[i] # p[j]}

\* C11: for a DomainConcatenation of children with pairwise disjoint domains,
\* in any order, the slice of the evaluated output for a domain d of a child is
\* the child's evaluated output at the child's slice for d; the per-domain
\* slices of the output put together give the child's output; and the output
\* is the same for every order of the children.
C11_RoundTrip ==
  Built =>
    \A y \in TestYs :
       ChildrenEvaluate(node, y) =>
         LET out == Evaluate(node, TestT, SomeY(y))
             ce == ChildrenEval(node, y)
         IN  /\ out.err = "none"
             /\ \A i \in 1..Len(node.children) :
                  /\ \A d \in Range(node.children[i].domain) :
                       PySlice(out.val, node.slices[d])
                         = PySlice(ce[i].val, node.children_slices[i][d])
                  /\ SplitBack(out.val, node.slices, node.children[i].domain)
                       = ce[i].val
             /\ \A p \in ChildOrders(node.children) :
                  LET other == DomainConcatenation(
                                 [i \in 1..Len(node.children) |-> node.children[p[i]]])
                  IN  /\ other.err = "none"
                      /\ Evaluate(other.val, TestT, SomeY(y)) = out

\* a separator child was given before a child over the negative and the
\* positive electrode, which is split around it
C11_Witness ==
  /\ Built
  /\ Len(node.children) = 2
  /\ node.children[1].domain = Sep
  /\ node.children[2].domain = Neg \o Pos
  /\ node.domain = Neg \o Sep \o Pos
  /\ \A y \in TestYs : ChildrenEvaluate(node, y)

SliceLen(sl) == sl.stop - sl.start

\* the domains of a list appear in the order of KNOWN_DOMAINS
InGlobalOrder(domain) ==
  /\ Range(domain) \subseteq Range(KNOWN_DOMAINS)
  /\ \A i, j \in 1..Len(domain) :
       i < j => IndexIn(KNOWN_DOMAINS, domain[i]) < IndexIn(KNOWN_DOMAINS, domain[j])

\* the length of the slices of the children for one domain, summed
ChildrenSliceLen(n, d) ==
  SumSeq([i \in 1..Len(n.children) |->
            IF d \in Range(n.children_doms[i])
            THEN SliceLen(n.children_slices[i][d]) ELSE 0])

\* C12: in a DomainConcatenation built against a mesh, the slices of the node
\* start at 0, are contiguous, follow the node's domain list, which is in the
\* global order, and end at node.size; node.size is the sum over the domains of
\* mesh[dom][0].npts * len(mesh[dom]); and for each domain the lengths of the
\* children's slices for it add up to the length of the node's slice for it.
C12_SliceLayout ==
  Built =>
    /\ InGlobalOrder(node.domain)
    /\ DOMAIN node.slices = Range(node.domain)
    /\ node.slices[node.domain[1]].start = 0
    /\ \A k \in 1..(Len(node.domain) - 1) :
         node.slices[node.domain[k]].stop = node.slices[node.domain[k + 1]].start
    /\ \A k \in 1..Len(node.domain) :
         SliceLen(node.slices[node.domain[k]])
           = mesh[node.domain[k]][1].npts * Len(mesh[node.domain[k]])
    /\ node.slices[node.domain[Len(node.domain)]].stop = node.size
    /\ node.size = SumSeq([k \in 1..Len(node.domain) |->
                             mesh[node.domain[k]][1].npts * Len(mesh[node.domain[k]])])
    /\ \A d \in Range(node.domain) :
         ChildrenSliceLen(node, d) = SliceLen(node.slices[d])

\* three domains, given out of order by two children, on the mesh whose
\* negative electrode is made of two submeshes
C12_Witness ==
  /\ Built
  /\ Len(mesh["negative electrode"]) = 2
  /\ Len(node.domain) = 3
  /\ Len(node.children) = 2
  /\ node.children[1].domain # SubSeq(node.domain, 1, Len(node.children[1].domain))

(***************************************************************************)
(* Properties of Concatenation                                             *)
(***************************************************************************)
\* the domains of the children one after the other, in the order supplied
SuppliedDomains(children) ==
  Flatten([i \in 1..Len(children) |-> children[i].domain])

\* C13: the domain of a Concatenation is the union of the domains of its
\* children listed in the order of KNOWN_DOMAINS, not in the order in which the
\* children were supplied: every order of the same children gives the same
\* domain list, and the children are kept in the order supplied.
C13_DomainInGlobalOrder ==
  (op = "Concatenation" /\ err = "none") =>
    /\ Range(node.domain) = Range(SuppliedDomains(node_in))
    /\ InGlobalOrder(node.domain)
    /\ node.children = node_in
    /\ \A p \in ChildOrders(node_in) :
         LET permuted == [i \in 1..Len(node_in) |-> node_in[p[i]]]
             other == Concatenation(permuted)
         IN  /\ other.err = "none"
             /\ other.val.domain = node.domain
             /\ other.val.children = permuted

\* three children over four domains were supplied in an order that is not the
\* global order
C13_Witness ==
  /\ op = "Concatenation"
  /\ err = "none"
  /\ Len(node_in) = 3
  /\ Len(node.domain) = 4
  /\ SuppliedDomains(node_in) # node.domain

(***************************************************************************)
(* Properties of process_symbol on concatenations                          *)
(***************************************************************************)
\* every child is a Broadcast over a domain of the mesh
BroadcastChildren(children) ==
  \A i \in 1..Len(children) :
     /\ children[i].kind = "Broadcast"
     /\ Range(children[i].domain) \subseteq DOMAIN mesh

\* the value a broadcast child holds at (t, y): that of its own child
BroadcastValue(b, t, y) == Evaluate(b.children[1], t, SomeY(y)).val[1]

\* the child that owns a domain
Owner(children, d) == CHOOSE i \in 1..Len(children) : d \in Range(children[i].domain)

\* per domain, in the order of the list, the value of the owner repeated once
\* per mesh point of the domain
Blocks(children, domain, t, y) ==
  Flatten([k \in 1..Len(domain) |->
             [j \in 1..(mesh[domain[k]][1].npts * Len(mesh[domain[k]])) |->
                BroadcastValue(children[Owner(children, domain[k])], t, y)]])

ScenarioBChildren ==
  <<BroadcastNode(Scalar(1), Neg), BroadcastNode(Scalar(2), Sep),
    BroadcastNode(Scalar(3), Pos)>>

\* process_symbol was applied to a Concatenation
ProcessedConcatenation == op = "process_symbol" /\ node_in.kind = "Concatenation"

\* the children of the Concatenation, each rewritten by process_symbol
RewrittenChildren ==
  [i \in 1..Len(node_in.children) |-> process_symbol(node_in.children[i], y_slices, bcs).val]

\* process_symbol returned the DomainConcatenation of the rewritten children
\* built against the mesh
ReturnedDomainConcatenation ==
  /\ err = "none"
  /\ node.kind = "DomainConcatenation"
  /\ node.children = RewrittenChildren
  /\ node.domain = node_in.domain
  /\ node.slices = create_slices(node_in.domain)

\* process_symbol rewrites every child of the Concatenation without raising
ChildrenRewritten ==
  \A i \in 1..Len(node_in.children) :
     process_symbol(node_in.children[i], y_slices, bcs).err = "none"

\* C14 as stated: process_symbol on any Concatenation rewrites every child and
\* returns the DomainConcatenation of the rewritten children built against the
\* mesh of the discretisation.
C14_AnyConcatenation == ProcessedConcatenation => ReturnedDomainConcatenation

\* C14: process_symbol on a Concatenation whose children it can rewrite (every
\* Variable among them has a slice, every Broadcast a method), whose domain is
\* not empty and lies in the mesh, rewrites every child, a Variable to the
\* StateVector of its slice, and returns the DomainConcatenation of the
\* rewritten children built against the mesh of the discretisation; for
\* broadcast children, also of the time or of a state entry, the result
\* evaluates to one block per domain in the global order, with one entry per
\* mesh point of the domain holding the child's value; on the mesh with 5, 4
\* and 5 points, broadcasts of 1, 2 and 3 give [1]*5 + [2]*4 + [3]*5.
C14_ProcessConcatenation ==
  (ProcessedConcatenation /\ ChildrenRewritten /\ node_in.domain # <<>>
     /\ Range(node_in.domain) \subseteq DOMAIN mesh) =>
    /\ ReturnedDomainConcatenation
    /\ \A i \in 1..Len(node_in.children) :
         node_in.children[i].kind = "Variable" =>
           node.children[i]
             = StateVector(y_slices[SymbolId(node_in.children[i])],
                           node_in.children[i].domain)
    /\ BroadcastChildren(node_in.children) =>
         \A t \in TestTs, y \in TestYs :
            Evaluate(node, t, SomeY(y))
              = Arr(Blocks(node_in.children, node_in.domain, t, y))
    /\ (mesh = MeshScenarioB /\ node_in.children = ScenarioBChildren) =>
         Evaluate(node, TestT, NoY)
           = Arr(<<1, 1, 1, 1, 1, 2, 2, 2, 2, 3, 3, 3, 3, 3>>)

\* a concatenation of a number over the negative electrode, the time over the
\* separator and a state entry over the positive electrode, given in another
\* order, was discretised on the mesh with 5, 4 and 5 points
C14_Witness ==
  /\ op = "process_symbol"
  /\ err = "none"
  /\ mesh = MeshScenarioB
  /\ node_in.kind = "Concatenation"
  /\ Len(node_in.children) = 3
  /\ node_in.children[1] = BroadcastNode(StateVector(Slice(2, 3), <<>>), Pos)
  /\ node_in.children[2] = BroadcastNode(Scalar(1), Neg)
  /\ node_in.children[3] = BroadcastNode(Time, Sep)
  /\ node.size = 14

(***************************************************************************)
(* Properties of create_mass_matrix                                        *)
(***************************************************************************)
\* create_mass_matrix returned: on its own, or as a step of process_model
MassMatrixBuilt ==
  \/ op = "create_mass_matrix" /\ err = "none"
  \/ op = "process_model" /\ model.has_mass_matrix

\* the class registered for a domain in the registry handed to Discretisation
IsRegistered(dom) ==
  \/ dom \in DOMAIN registry
  \/ dom \in MacroscaleDomains /\ "macroscale" \in DOMAIN registry
RegisteredClass(dom) ==
  IF dom \in MacroscaleDomains /\ "macroscale" \in DOMAIN registry
  THEN registry["macroscale"]
  ELSE IF dom \in DOMAIN registry THEN registry[dom]
  ELSE "none"

\* the mesh points of the domains of a rhs key
MeshPoints(dom) == SumSeq([k \in 1..Len(mesh[dom]) |-> mesh[dom][k].npts])
KeyPoints(key) == SumSeq([d \in 1..Len(key.domain) |-> MeshPoints(key.domain[d])])

\* the block the claim expects for one rhs key: 1.0, or the mass matrix of the
\* method of the first domain for that key and the boundary conditions
ExpectedBlock(key) ==
  IF key.domain = <<>> THEN [type |-> "one", size |-> 1]
  ELSE [type |-> "mass", method |-> RegisteredClass(key.domain[1]),
        variable |-> SymbolId(key), bcs |-> bcs, size |-> KeyPoints(key)]

\* the first row of block i in the block-diagonal matrix
BlockOffset(i) == SumSeq([k \in 1..(i - 1) |-> model.mass_matrix[k].size])

\* the state-vector slots of a key in the slice map
KeySliceStart(key) == y_slices[SymbolId(UnpackVariables(<<key>>)[1])].start
KeySliceStop(key) ==
  y_slices[SymbolId(UnpackVariables(<<key>>)[Len(UnpackVariables(<<key>>))])].stop

\* the mass matrix can be asked for every rhs key: the first domain of the key
\* has a method and every domain of the key is in the mesh
BlocksAvailable ==
  \A i \in 1..Len(model0.rhs) :
    model0.rhs[i][1].domain # <<>> =>
      /\ IsRegistered(model0.rhs[i][1].domain[1])
      /\ Range(model0.rhs[i][1].domain) \subseteq DOMAIN mesh

\* the entries of the algebraic part of a model made by hand, 0 - 1 if its
\* evaluation is not an array: a Vector has its entries, a StateVector those of
\* its slice of y0
HandMadeSide ==
  CASE model0.concatenated_algebraic.kind = "Vector" ->
         Len(model0.concatenated_algebraic.entries)
    [] /\ model0.concatenated_algebraic.kind = "StateVector"
       /\ model0.concatenated_initial_conditions.set ->
         model0.concatenated_algebraic.y_slice.stop
           - model0.concatenated_algebraic.y_slice.start
    [] OTHER -> 0 - 1

\* the rows of the algebraic equations of a discretised model, one by one
EquationRows ==
  SumSeq([i \in 1..Len(model.algebraic) |->
            Len(Evaluate(model.algebraic[i][2], 0,
                         SomeY(model.concatenated_initial_conditions.val)).val)])

\* len(concatenated_algebraic.evaluate(0, y0))
AlgebraicLength ==
  Len(Evaluate(model.concatenated_algebraic, 0,
               SomeY(model.concatenated_initial_conditions.val)).val)

\* the blocks of a mass matrix that was built: one per rhs key in key order,
\* 1.0 or the matrix of the method of the first domain, and the zero block last
\* exactly when the model has algebraic keys
BlocksAsBuilt ==
  MassMatrixBuilt =>
    /\ Keys(model.rhs) = Keys(model0.rhs)
    /\ Len(model.mass_matrix)
         = Len(model.rhs) + (IF model.algebraic # <<>> THEN 1 ELSE 0)
    /\ \A i \in 1..Len(model.rhs) :
         model.mass_matrix[i] = ExpectedBlock(model.rhs[i][1])
    /\ model.algebraic # <<>> =>
         model.mass_matrix[Len(model.mass_matrix)]
           = [type |-> "zero", size |-> AlgebraicLength]
    /\ \A i \in 1..Len(model.mass_matrix) :
         model.mass_matrix[i].type = "zero"
           => (i = Len(model.rhs) + 1 /\ model.algebraic # <<>>)

\* inside process_model the blocks start at the rows the slice map gives the
\* keys and the zero block has the rows of the algebraic equations
BlocksAtSlices ==
  (op = "process_model" /\ model.has_mass_matrix) =>
    /\ \A i \in 1..Len(model.rhs) :
         /\ BlockOffset(i) = KeySliceStart(model.rhs[i][1])
         /\ BlockOffset(i + 1) = KeySliceStop(model.rhs[i][1])
    /\ model.algebraic # <<>> =>
         /\ BlockOffset(Len(model.rhs) + 1) = KeySliceStart(model.algebraic[1][1])
         /\ model.mass_matrix[Len(model.mass_matrix)].size = EquationRows

\* create_mass_matrix called on its own raises exactly when a key has no
\* method for its first domain or a domain outside the mesh (KeyError), or
\* when the algebraic part does not evaluate to an array, and then it leaves
\* the model without mass matrix
BuildsUnlessUndefined ==
  /\ err = "none"
       <=> (BlocksAvailable /\ (model0.algebraic # <<>> => HandMadeSide >= 0))
  /\ ~BlocksAvailable => err = "KeyError"
  /\ err # "none" => model = model0
  /\ (err = "none" /\ model0.algebraic # <<>>) =>
       model.mass_matrix[Len(model.mass_matrix)].size = HandMadeSide

\* the model given to create_mass_matrix has an rhs key or an algebraic key
HasEquations == model0.rhs # <<>> \/ model0.algebraic # <<>>

KeyedBySlice(var_eqn_dict) ==
  [i \in 1..Len(var_eqn_dict) |->
     <<y_slices[SymbolId(UnpackVariables(<<var_eqn_dict[i][1]>>)[1])],
       var_eqn_dict[i][2]>>]

\* the discretised initial conditions in increasing order of their keys' slices
InSliceOrder(var_eqn_dict) ==
  [i \in 1..Len(var_eqn_dict) |-> SortBySlice(KeyedBySlice(var_eqn_dict))[i][2]]

\* the vector that holds every initial condition at the slice of its key
InitialVectorBySlice ==
  Flatten([i \in 1..Len(model.initial_conditions) |->
             Evaluate(InSliceOrder(model.initial_conditions)[i], 0, NoY).val])

\* C16: the concatenated initial conditions hold the equation of every key at
\* the slice(s) of that key, whatever the order of the keys in the dictionary
\* and whether the keys are variables or Concatenations of variables
C16_InitialConditionsInSliceOrder ==
  (op = "process_model" /\ model.concatenated_initial_conditions.set)
    => model.concatenated_initial_conditions.val = InitialVectorBySlice

(***************************************************************************)
(* Properties of evaluation with known_evals                               *)
(***************************************************************************)
\* a solver callable was called
Called == call.fn # "none"

\* the expressions the callable last called evaluates, in the order in which
\* it evaluates them
CalledExpressions ==
  CASE call.fn = "residuals" -> <<SolverRhs, SolverAlgebraic>>
    [] call.fn = "algebraic" -> <<SolverAlgebraic>>
    [] OTHER -> <<SolverRhs>>

\* expr.evaluate(t, y) at the arguments of the last call
Uncached(expr) == Evaluate(expr, call.t, SomeY(call.y))

\* C17: the value a concatenation evaluates to with a cache of sub-results
\* is the value it evaluates to without one, also for the algebraic part
\* evaluated with the cache the rhs part left at the same (t, y); and the
\* cache then maps the node's id to the value returned
C17_CachedEvaluation ==
  Called =>
    \A i \in 1..Len(result.values) :
      /\ result.values[i] = Uncached(CalledExpressions[i])
      /\ result.values[i].err = "none" =>
           /\ InCache(known_evals, CacheKey(CalledExpressions[i]))
           /\ Cached(known_evals, CacheKey(CalledExpressions[i])) = result.values[i]

\* the two parts of one residuals call are different concatenations that
\* share a child, which the second takes from the cache
C17_Witness ==
  /\ call.fn = "residuals"
  /\ Len(result.values) = 2
  /\ SolverRhs.kind = "NumpyConcatenation"
  /\ SolverAlgebraic.kind = "NumpyConcatenation"
  /\ SolverRhs # SolverAlgebraic
  /\ Range(SolverRhs.children) \cap Range(SolverAlgebraic.children) # {}
  /\ result.values[2].err = "none"
  /\ Len(result.values[2].val) > 0

(***************************************************************************)
(* Properties of the callables of the solvers                              *)
(***************************************************************************)
\* a node and every node below it
RECURSIVE Nodes(_)
Nodes(s) ==
  {s} \cup (IF "children" \in DOMAIN s
            THEN UNION {Nodes(s.children[i]) : i \in 1..Len(s.children)}
            ELSE {})

\* the nodes the callable last called evaluates
CalledNodes == UNION {Nodes(CalledExpressions[i]) : i \in 1..Len(CalledExpressions)}

\* the cache the last call left holds nothing but nodes of the expressions of
\* that call, each with its value at the (t, y) of that call
CacheOfThisCall ==
  \A i \in 1..Len(known_evals) :
    /\ known_evals[i][1] \in {CacheKey(s) : s \in CalledNodes}
    /\ known_evals[i][2] = Uncached(known_evals[i][1])

\* the rhs part and the algebraic part of one residuals call used one cache
SharedInsideResiduals ==
  (call.fn = "residuals" /\ \A i \in 1..Len(result.values) : result.values[i].err = "none")
    => /\ Len(result.values) = 2
       /\ InCache(known_evals, CacheKey(SolverRhs))
       /\ InCache(known_evals, CacheKey(SolverAlgebraic))

\* what the last call returned is what it returns when nothing was called before
ReturnedAsFirstCall ==
  /\ \A i \in 1..Len(result.values) : result.values[i] = Uncached(CalledExpressions[i])
  /\ call.fn \in {"rhs", "algebraic", "dydt"} => result.out = result.values[1]

\* C18: in every sequence of calls of residuals, rhs, algebraic and dydt each
\* call starts from an empty cache: after every call of the sequence the
\* cache holds only values of that call's expressions at that call's (t, y),
\* one cache serves the two evaluations of a residuals call, and nothing
\* cached at another (t, y) is returned
C18_FreshCachePerCall ==
  Called => (CacheOfThisCall /\ SharedInsideResiduals /\ ReturnedAsFirstCall)

\* a call that follows a call at another (t, y) and evaluates a state
\* dependent expression
C18_Witness ==
  /\ call.moved
  /\ call.fn \in {"rhs", "residuals"}
  /\ \E s \in CalledNodes : s.kind = "StateVector"
  /\ Len(known_evals) > 1
  /\ result.out.err = "none"
  /\ Len(result.out.val) > 0

(***************************************************************************)
(* Properties of process_model                                             *)
(***************************************************************************)
ProcessedModel == op = "process_model"

\* the place of a step in the order of process_model
StepIndex(s) == CHOOSE k \in 1..Len(Steps) : Steps[k] = s

\* step k of the run ran to its end: the run returned, or it raised in a
\* later step
Completed(k) == err = "none" \/ k < StepIndex(step)

\* the equations a model holds
Equations(m) ==
  Range(Values(m.rhs)) \cup Range(Values(m.algebraic))
    \cup Range(Values(m.initial_conditions)) \cup Range(Values(m.variables))
    \cup Range(m.events)
    \cup UNION {Range(Values(m.boundary_conditions[i][2])) :
                  i \in 1..Len(m.boundary_conditions)}

\* the slice lookups (StateVectors) in the equations of a model
SliceLookups(m) ==
  {s \in UNION {Nodes(e) : e \in Equations(m)} : s.kind = "StateVector"}

\* C19: a run of process_model goes through its steps in one order: slices,
\* boundary conditions, initial conditions, rhs, algebraic, variables,
\* events, mass matrix, Jacobian, validation. What a step leaves behind is
\* there exactly when the run got past that step: a slice lookup only with
\* the slices of this run, the mass matrix only with the concatenated initial
\* conditions, rhs, algebraic part and events, and a run that returns has
\* passed the validation as its last step
C19_StepOrder ==
  ProcessedModel =>
    /\ step \in Range(Steps)
    /\ err = "none" => step = "check"
    /\ IF Completed(1)
       THEN y_slices
              = set_variable_slices(Keys(model0.rhs) \o Keys(model0.algebraic)).val
       ELSE y_slices = <<>> /\ model = model0
    /\ \A s \in SliceLookups(model) :
         Completed(1) /\ \E id \in DOMAIN y_slices : y_slices[id] = s.y_slice
    /\ model.concatenated_initial_conditions.set <=> Completed(3)
    /\ model.concatenated_rhs # NoNode <=> Completed(4)
    /\ model.concatenated_algebraic # NoNode <=> Completed(5)
    /\ model.concatenated_events # NoNode <=> Completed(7)
    /\ model.has_mass_matrix <=> Completed(8)
    /\ err = "none" <=> (step = "check" /\ check_model(model) = Passed)

\* a run that returned normally, with slice lookups, a mass matrix with a
\* zero block, and events
C19_Witness ==
  /\ ProcessedModel
  /\ err = "none"
  /\ step = "check"
  /\ SliceLookups(model) # {}
  /\ model.algebraic # <<>>
  /\ model.has_mass_matrix
  /\ model.events # <<>>

(***************************************************************************)
(* Properties of simplify applied twice                                    *)
(***************************************************************************)
\* C20: simplify is idempotent on concatenations: simplifying the result of
\* simplify once more gives a structurally equal node (same kind, same
\* slices or entries, same children, same domain)
C20_SimplifyIdempotent ==
  op = "simplify again" => simp = node

\* ---------------------------------------------------------------------------
\* C21: when the registry has the key "macroscale", each of "negative
\* electrode", "separator" and "positive electrode" has an instance of the
\* macroscale method's class built on the given mesh, and every other key of the
\* registry has an instance of its own method
C21_MacroscaleExpanded ==
  "macroscale" \in DOMAIN registry =>
    /\ \A dom \in MacroscaleDomains :
          /\ dom \in DOMAIN spatial_methods
          /\ spatial_methods[dom].method = registry["macroscale"]
          /\ spatial_methods[dom].mesh = mesh
    /\ \A key \in DOMAIN registry \ MacroscaleDomains :
          /\ key \in DOMAIN spatial_methods
          /\ spatial_methods[key].method = registry[key]
          /\ spatial_methods[key].mesh = mesh

\* a registry whose own "negative electrode" method differs from the macroscale
\* method and which has a further key; a concatenation of broadcasts over the
\* three electrode domains has been discretised with the expanded methods
C21_Witness ==
  /\ DOMAIN registry = RegistryKeys
  /\ registry["negative electrode"] # registry["macroscale"]
  /\ registry["current collector"] # registry["macroscale"]
  /\ op = "process_symbol"
  /\ err = "none"
  /\ node_in.kind = "Concatenation"
  /\ node_in.domain = Neg \o Sep \o Pos

\* ---------------------------------------------------------------------------
\* C22: DomainConcatenation(children, mesh) whose children all have an empty
\* domain raises DomainError on every mesh and produces no node; when some child
\* has a domain, a DomainError can only come from children whose domains overlap
C22_EmptyDomainRaises ==
  op = "DomainConcatenation" =>
    /\ (\A i \in 1..Len(node_in) : node_in[i].domain = <<>>)
          => (err = "DomainError" /\ node = NoNode)
    /\ ((\E i \in 1..Len(node_in) : node_in[i].domain # <<>>)
          /\ err = "DomainError") => ~PairwiseDisjoint(node_in)

\* several children, all without a domain
C22_Witness ==
  /\ op = "DomainConcatenation"
  /\ Len(node_in) > 1
  /\ \A i \in 1..Len(node_in) : node_in[i].domain = <<>>
  /\ err = "DomainError"

\* ---------------------------------------------------------------------------
\* the entries a child contributes when it is evaluated on its own: its vector,
\* or the one number it evaluates to
OwnEntries(child, t, y) == Evaluate(child, t, SomeY(y)).val

\* C23: NumpyConcatenation(*children).evaluate(t, y) is the concatenation of the
\* children's evaluated vectors in argument order, a child that evaluates to a
\* number contributing exactly one entry; the length of the output is the sum
\* of the children's lengths, and without children the output is empty
C23_NumpyConcatenation ==
  op = "NumpyConcatenation" =>
    \A t \in TestTs, y \in TestYs :
       LET out == Evaluate(node, t, SomeY(y))
           own == [i \in 1..Len(node_in) |-> OwnEntries(node_in[i], t, y)]
       IN  /\ out.err = "none"
           /\ ~out.num
           /\ out.val = Flatten(own)
           /\ Len(out.val) = SumSeq([i \in 1..Len(own) |-> Len(own[i])])
           /\ \A i \in 1..Len(node_in) :
                evaluates_to_number(node_in[i]) => Len(own[i]) = 1
           /\ node_in = <<>> => out.val = <<>>

\* a vector between a scalar and the time
C23_Witness ==
  /\ op = "NumpyConcatenation"
  /\ Len(node_in) = MaxChildren
  /\ node_in[1].kind = "Scalar"
  /\ node_in[MaxChildren].kind = "Time"
  /\ \E i \in 1..Len(node_in) : node_in[i].kind = "StateVector"

\* ---------------------------------------------------------------------------
\* the rewritten children of the binary operator that was discretised
NewLeft == process_symbol(node_in.children[1], y_slices, bcs).val
NewRight == process_symbol(node_in.children[2], y_slices, bcs).val

\* the node is the diffusivity of the rewritten child other, with the flags
\* telling whether a node of the rewritten child side has a ghost cell
IsDiffusivityOf(n, other, side) ==
  /\ n.kind = "Diffusivity"
  /\ n.children = <<other>>
  /\ n.extrapolate_left
       <=> \E x \in Range(pre_order(side)) : has_left_ghost_cell(x)
  /\ n.extrapolate_right
       <=> \E x \in Range(pre_order(side)) : has_right_ghost_cell(x)

\* C24: process_binary_operators rewrites both children; when only the original
\* left child has a gradient outside a divergence the rewritten right child is
\* replaced by its diffusivity, when only the right one has, the rewritten left
\* child is, and otherwise neither; the extrapolation flags tell whether a node
\* of the rewritten gradient side has a left / right ghost cell; the result has
\* the class of the input and the operands in their positions
C24_DiffusivityAveraging ==
  (op = "process_binary_operators" /\ err = "none") =>
    LET gl == has_gradient_and_not_divergence(node_in.children[1])
        gr == has_gradient_and_not_divergence(node_in.children[2])
    IN  /\ node.kind = "BinaryOperator"
        /\ node.name = node_in.name
        /\ Len(node.children) = Len(node_in.children)
        /\ (gl = gr) => node.children = <<NewLeft, NewRight>>
        /\ (gl /\ ~gr) =>
              /\ node.children[1] = NewLeft
              /\ IsDiffusivityOf(node.children[Len(node.children)], NewRight, NewLeft)
        /\ (gr /\ ~gl) =>
              /\ node.children[Len(node.children)] = NewRight
              /\ IsDiffusivityOf(node.children[1], NewLeft, NewRight)

\* a variable times the gradient of a variable that has a boundary condition on
\* the left only: the variable is averaged, extrapolating on the left
C24_Witness ==
  /\ op = "process_binary_operators"
  /\ err = "none"
  /\ node_in.children[1].kind = "Variable"
  /\ has_gradient_and_not_divergence(node_in.children[Len(node_in.children)])
  /\ node.children[1].kind = "Diffusivity"
  /\ node.children[1].extrapolate_left
  /\ ~node.children[1].extrapolate_right

\* ---------------------------------------------------------------------------
\* C25: process_symbol on a Variable returns a StateVector with exactly the
\* slice the slice map holds for the variable's id and with the variable's
\* domain; when the id is not in the slice map the call fails with a KeyError
\* and produces no node; the slice map is the same before and after the call
C25_VariableToStateVector ==
  [][(op' = "process_symbol" /\ node_in'.kind = "Variable") =>
       /\ y_slices' = y_slices
       /\ IF SymbolId(node_in') \in DOMAIN y_slices
          THEN /\ err' = "none"
               /\ node'.kind = "StateVector"
               /\ node'.y_slice = y_slices[SymbolId(node_in')]
               /\ node'.domain = node_in'.domain
          ELSE /\ err' = "KeyError"
               /\ node' = NoNode]_vars

\* a variable over a domain was looked up in a slice map that holds it and
\* other variables
C25_Witness ==
  /\ op = "process_symbol"
  /\ err = "none"
  /\ node_in.kind = "Variable"
  /\ node_in.domain # <<>>
  /\ node.kind = "StateVector"
  /\ node.y_slice.start > 0

\* ---------------------------------------------------------------------------
\* the discretised form of a symbol under the slices and boundary conditions of
\* the state
Discretised(symbol) == process_symbol(symbol, y_slices, bcs).val

\* C26: process_dict returns the dictionary with the same keys in the same
\* order, the keys themselves untouched, and every value replaced by its
\* discretised form; a value that evaluates to a number is first broadcast to
\* the domain of its key when the key is a variable (a Broadcast over the empty
\* domain for a key without a domain, the broadcast of the spatial method
\* otherwise) and is not broadcast when the key is a string
C26_ProcessDict ==
  (op = "process_dict" /\ err = "none") =>
    /\ Len(node) = Len(node_in)
    /\ \A i \in 1..Len(node_in) :
         LET eqn_key == node_in[i][1]
             eqn == node_in[i][Len(node_in[i])]
             out == node[i][Len(node[i])]
         IN  /\ node[i][1] = eqn_key
             /\ IF ~evaluates_to_number(eqn) \/ eqn_key.kind = "str"
                THEN out = Discretised(eqn)
                ELSE IF eqn_key.domain = <<>>
                THEN /\ out = Discretised(BroadcastNode(eqn, <<>>))
                     /\ out.kind = "NumpyBroadcast"
                     /\ out.domain = <<>>
                ELSE /\ out = Discretised(MethodBroadcast(eqn, eqn_key.domain))
                     /\ out.domain = eqn_key.domain

\* a number under a string key next to a number under a variable over a domain
C26_Witness ==
  /\ op = "process_dict"
  /\ err = "none"
  /\ \E i, j \in 1..Len(node_in) :
       /\ node_in[i][1].kind = "str"
       /\ evaluates_to_number(node_in[i][Len(node_in[i])])
       /\ node[i][Len(node[i])].kind = "Scalar"
       /\ node_in[j][1].kind = "Variable"
       /\ node_in[j][1].domain # <<>>
       /\ evaluates_to_number(node_in[j][Len(node_in[j])])
       /\ node[j][Len(node[j])].kind = "NumpyBroadcast"

\* ---------------------------------------------------------------------------
\* the domain of the child handed to Broadcast: a plain number has none
GivenChildDomain == AsSymbol(node_in.child).domain

\* C27: Broadcast(child, domain) raises DomainError unless the child's domain
\* is [], the target domain or ['current collector']; otherwise the node has
\* exactly the target domain, a plain number being wrapped as a Scalar;
\* _unary_simplify and _unary_new_copy give a Broadcast with the same domain;
\* process_symbol turns a Broadcast over the empty domain into a NumpyBroadcast
\* of the rewritten child that adds no entries, and hands any other Broadcast
\* to the spatial method of the first domain of the target
C27_Broadcast ==
  /\ op = "Broadcast" =>
       /\ (err = "DomainError")
            <=> GivenChildDomain \notin {<<>>, node_in.domain, <<"current collector">>}
       /\ err \in {"none", "DomainError"}
       /\ err = "none" =>
            /\ node.kind = "Broadcast"
            /\ node.domain = node_in.domain
            /\ node.children = <<AsSymbol(node_in.child)>>
            /\ node_in.child.kind = "Number" => node.children[1].kind = "Scalar"
  /\ op \in {"_unary_simplify", "_unary_new_copy"} =>
       /\ err = "none"
       /\ simp.kind = "Broadcast"
       /\ simp.domain = node.domain
  /\ (op = "process_symbol" /\ Discretised(node.children[1]) # NoNode) =>
       IF node.domain = <<>>
       THEN /\ err = "none"
            /\ simp.kind = "NumpyBroadcast"
            /\ simp.domain = <<>>
            /\ simp.children = <<Discretised(node.children[1])>>
            /\ \A y \in TestYs :
                 Evaluate(simp, TestT, SomeY(y)).val
                   = Evaluate(simp.children[1], TestT, SomeY(y)).val
       ELSE IF node.domain[1] \in DOMAIN spatial_methods
       THEN /\ err = "none"
            /\ simp = MethodBroadcast(Discretised(node.children[1]), node.domain)
       ELSE err = "KeyError"

\* a plain number was broadcast to two domains, and the broadcast discretised
C27_Witness ==
  /\ op = "process_symbol"
  /\ err = "none"
  /\ node_in.child.kind = "Number"
  /\ Len(node.domain) > 1
  /\ simp.kind = "NumpyBroadcast"

\* ---------------------------------------------------------------------------
\* the discretised equations in the order in which concatenated_rhs and
\* concatenated_algebraic stack them
StackedEquations == model.rhs \o model.algebraic

\* the number of entries the equation of item i contributes at y0
EquationEntries(i) ==
  Len(Evaluate(StackedEquations[i][Len(StackedEquations[i])], TestT, SomeY(Y0)).val)

\* the index range the equation of item i occupies in the stacked vector
EquationRange(i) ==
  Slice(SumSeq([k \in 1..(i - 1) |-> EquationEntries(k)]),
        SumSeq([k \in 1..i |-> EquationEntries(k)]))

\* the index range the slice map gives a key: the slice of a variable, the
\* slices of the children of a Concatenation taken together
KeyRange(key) ==
  Slice(y_slices[SymbolId(UnpackVariables(<<key>>)[1])].start,
        y_slices[SymbolId(UnpackVariables(<<key>>)[Len(UnpackVariables(<<key>>))])].stop)

\* C28: after a successful process_model the equation of every rhs or algebraic
\* key occupies, in concatenated_rhs followed by concatenated_algebraic, exactly
\* the index range of the key's slice, and the initial condition of every key
\* is found in concatenated_initial_conditions at the range of that key
C28_LayoutAgreesWithSlices ==
  Succeeded =>
    /\ \A i \in 1..Len(StackedEquations) :
         EquationRange(i) = KeyRange(StackedEquations[i][1])
    /\ \A j \in 1..Len(model.initial_conditions) :
         PySlice(Y0, KeyRange(model.initial_conditions[j][1]))
           = Evaluate(model.initial_conditions[j][Len(model.initial_conditions[j])],
                      TestT, NoY).val

\* ---------------------------------------------------------------------------
\* the size a DomainConcatenation over the domains computes (line 162): the
\* stop of the slice of the last domain
ConcatenationSize(domain) == create_slices(domain)[domain[Len(domain)]].stop

\* C29: on every mesh, the number of slots set_variable_slices gives a variable
\* over a list of domains is the size a DomainConcatenation over the same
\* domains computes
C29_SizesAgree ==
  (op = "set_variable_slices" /\ err = "none") =>
    \A i \in 1..Len(Unpacked) :
       Unpacked[i].domain # <<>> =>
         y_slices[SymbolId(Unpacked[i])].stop - y_slices[SymbolId(Unpacked[i])].start
           = ConcatenationSize(Unpacked[i].domain)

\* ---------------------------------------------------------------------------
\* the (child, domain) pairs that the loops of _concatenation_evaluate visit
\* (lines 205-206): the items of the slice map of each child
WritingPairs(n) ==
  { p \in (1..Min(Len(n.children), Len(n.children_slices))) \X Range(KNOWN_DOMAINS) :
      p[2] \in Range(n.children_doms[p[1]]) }

\* the pairs whose assignment (line 207) writes index k of the output
WritersOf(n, k) ==
  { p \in WritingPairs(n) :
      /\ p[2] \in DOMAIN n.slices
      /\ n.slices[p[2]].start <= k
      /\ k < n.slices[p[2]].stop }

\* the entries of the evaluated children of n at (TestT, y)
ChildEntries(n, y) ==
  UNION { Range(ChildrenEval(n, y)[i].val) : i \in 1..Len(n.children) }

\* every index of the output of n is written by exactly one pair, and an
\* evaluation of n that returns has the size of n and holds entries of the
\* children only
WrittenExactlyOnce(n) ==
  /\ \A k \in 0..(n.size - 1) : Cardinality(WritersOf(n, k)) = 1
  /\ \A y \in TestYs :
       Evaluate(n, TestT, SomeY(y)).err = "none" =>
         /\ Len(Evaluate(n, TestT, SomeY(y)).val) = n.size
         /\ \A k \in 1..n.size :
              Evaluate(n, TestT, SomeY(y)).val[k] \in ChildEntries(n, y)

\* C30: in the evaluation of a DomainConcatenation, built against a mesh or
\* rebuilt by simplify with the slice maps of the node it was made from, every
\* index in [0, size) of the output is written by exactly one (child, domain)
\* pair: no entry is left as allocated and none is written twice
C30_WrittenExactlyOnce ==
  /\ Built => WrittenExactlyOnce(node)
  /\ (op = "simplify" /\ node.kind = "DomainConcatenation"
        /\ simp.kind = "DomainConcatenation") => WrittenExactlyOnce(simp)

\* simplify rebuilt a node with two children, one of them over two domains,
\* and the rebuilt node evaluates
C30_Witness ==
  /\ op = "simplify"
  /\ node.kind = "DomainConcatenation"
  /\ simp.kind = "DomainConcatenation"
  /\ Len(simp.children) > 1
  /\ \E i \in 1..Len(simp.children_doms) : Len(simp.children_doms[i]) > 1
  /\ \E y \in TestYs : Evaluate(simp, TestT, SomeY(y)).err = "none"
====
